---------------------------- MODULE Spec2Model ----------------------------
(***************************************************************************)
(* A model of the SQL log formatter of express-enhanced-logger             *)
(* (src/src/sqlFormatter.ts) and of the generic log truncation helper it   *)
(* uses (src/src/utils.ts).                                                *)
(*                                                                         *)
(* A JavaScript string is modelled as a sequence of one-character strings. *)
(* The escape character U+001B is the token "ESC", a line feed "LF" and a  *)
(* tab "TAB".                                                              *)
(***************************************************************************)
EXTENDS Integers, Sequences, FiniteSets, TLC

VARIABLES
    shape,       \* how the query text was put together (a sequence of segments)
    query,       \* the query argument
    params,      \* the params argument: a string, or Undefined
    paramArray,  \* a parsed parameter list (argument of replaceParamsInQuery)
    config,      \* the LoggerConfig the formatter was created with
    pc,          \* position of the caller
    result,      \* what the last call returned (or that it threw)
    again,       \* what a second call on the first result returned
    calls,       \* the calls made to config.customQueryFormatter (in SpecParse: the
                 \* decoders parseQueryParams has run; in SpecLogger: the options
                 \* handed to the constructor and to updateConfig)
    frames       \* the formatSqlQuery calls in progress, each with its locals (in
                 \* SpecMiddleware: the requestLogger invocations, each with its
                 \* response, the events emitted on it and the lines it logged)

vars == <<shape, query, params, paramArray, config, pc, result, again, calls, frames>>

-----------------------------------------------------------------------------
(* Bounds of the model.                                                    *)

\* The longest comma-separated list a generated query holds, and the longest
\* array a parameter holds.
MaxItems == 12

\* The longest parameter list handed to replaceParamsInQuery.
MaxParams == 11

-----------------------------------------------------------------------------
(* Characters and strings.                                                 *)

LowerLetters == <<"a","b","c","d","e","f","g","h","i","j","k","l","m",
                  "n","o","p","q","r","s","t","u","v","w","x","y","z">>
UpperLetters == <<"A","B","C","D","E","F","G","H","I","J","K","L","M",
                  "N","O","P","Q","R","S","T","U","V","W","X","Y","Z">>
Digits == <<"0","1","2","3","4","5","6","7","8","9">>

Range(s) == {s[i] : i \in DOMAIN s}

DigitSet == Range(Digits)
LowerSet == Range(LowerLetters)
WordChars == LowerSet \cup Range(UpperLetters) \cup DigitSet \cup {"_"}
SpaceChars == {" ", "LF", "TAB", "CR"}

\* \w of a JavaScript regular expression
IsWordChar(c) == c \in WordChars

\* \s of a JavaScript regular expression, and what String.prototype.trim removes
IsSpace(c) == c \in SpaceChars

ToUpper(c) ==
    IF c \in LowerSet
    THEN UpperLetters[CHOOSE i \in DOMAIN LowerLetters : LowerLetters[i] = c]
    ELSE c

\* the least element of a set of indexes that is >= from, or 0 if there is none
NextIndex(S, from) ==
    LET T == {i \in S : i >= from}
    IN  IF T = {} THEN 0 ELSE CHOOSE i \in T : \A j \in T : i <= j

\* String(n) of a non-negative integer
RECURSIVE NatToStr(_)
NatToStr(n) ==
    IF n < 10 THEN <<Digits[n + 1]>>
    ELSE NatToStr(n \div 10) \o <<Digits[(n % 10) + 1]>>

\* s.slice(from - 1): the characters from index `from` on
Drop(s, from) == IF from > Len(s) THEN <<>> ELSE SubSeq(s, from, Len(s))

\* s.startsWith(p, at - 1)
StartsAt(s, p, at) ==
    /\ at >= 1
    /\ at + Len(p) - 1 <= Len(s)
    /\ \A i \in 1..Len(p) : s[at + i - 1] = p[i]

\* s.indexOf(c, from - 1) + 1: the first index >= from at which s holds
\* character c, or 0
IndexOfChar(s, c, from) == NextIndex({i \in from..Len(s) : s[i] = c}, from)

\* the first index >= from at which s holds no white space (Len(s) + 1 if none)
SkipSpace(s, from) ==
    LET k == NextIndex({i \in from..Len(s) : ~IsSpace(s[i])}, from)
    IN  IF k = 0 THEN (IF from > Len(s) THEN from ELSE Len(s) + 1) ELSE k

\* String.prototype.trim
Trim(s) ==
    LET inked == {i \in DOMAIN s : ~IsSpace(s[i])}
    IN  IF inked = {} THEN <<>>
        ELSE SubSeq(s, CHOOSE i \in inked : \A j \in inked : i <= j,
                       CHOOSE i \in inked : \A j \in inked : i >= j)

\* String.prototype.split(',') : always at least one element
RECURSIVE SplitComma(_, _, _)
SplitComma(s, from, acc) ==
    LET k == IndexOfChar(s, ",", from)
    IN  IF k = 0 THEN Append(acc, Drop(s, from))
        ELSE SplitComma(s, k + 1, Append(acc, SubSeq(s, from, k - 1)))

Split(s) == SplitComma(s, 1, <<>>)

\* Array.prototype.join(',') of an array of strings
RECURSIVE JoinComma(_)
JoinComma(items) ==
    IF items = <<>> THEN <<>>
    ELSE IF Len(items) = 1 THEN items[1]
    ELSE items[1] \o <<",">> \o JoinComma(Tail(items))

\* Array.prototype.slice(0, n) for n >= 0
FirstN(a, n) == SubSeq(a, 1, IF n < Len(a) THEN n ELSE Len(a))
\* Array.prototype.slice(-n) for n >= 0; slice(-0) is slice(0), the whole array
LastN(a, n) ==
    IF n = 0 \/ n >= Len(a) THEN a ELSE SubSeq(a, Len(a) - n + 1, Len(a))

MapTrim(items) == [i \in DOMAIN items |-> Trim(items[i])]

CountChar(s, c) == Cardinality({i \in DOMAIN s : s[i] = c})

RECURSIVE Flatten(_)
Flatten(ss) == IF ss = <<>> THEN <<>> ELSE ss[1] \o Flatten(Tail(ss))

-----------------------------------------------------------------------------
(* chalk: the ANSI styles the formatter uses.  Level 0 is the identity.    *)

Sgr(code) == <<"ESC", "[">> \o code \o <<"m">>

\* text.replaceAll(pat, rep) for a non-empty literal pat, from index i on:
\* the occurrences are taken left to right and do not overlap
RECURSIVE ReplaceAllFrom(_, _, _, _)
ReplaceAllFrom(text, pat, rep, i) ==
    LET k == NextIndex({j \in i..Len(text) : StartsAt(text, pat, j)}, i)
    IN  IF k = 0 THEN Drop(text, i)
        ELSE SubSeq(text, i, k - 1) \o rep
             \o ReplaceAllFrom(text, pat, rep, k + Len(pat))

\* chalk's applyStyle at level 3 for one style: a close code already in the
\* text is replaced by the style's open code, the style is closed before a
\* line feed and opened again after it, and the text is wrapped.
ChalkStyle(open, close, text) ==
    IF text = <<>> THEN text
    ELSE LET reopened == IF "ESC" \in Range(text)
                         THEN ReplaceAllFrom(text, close, open, 1)
                         ELSE text
             encased == IF "LF" \in Range(reopened)
                        THEN ReplaceAllFrom(reopened, <<"LF">>, close \o <<"LF">> \o open, 1)
                        ELSE reopened
         IN  open \o encased \o close

ChalkBold(text) == ChalkStyle(Sgr(<<"1">>), Sgr(<<"2", "2">>), text)
ChalkDim(text) == ChalkStyle(Sgr(<<"2">>), Sgr(<<"2", "2">>), text)
ChalkCyan(text) == ChalkStyle(Sgr(<<"3", "6">>), Sgr(<<"3", "9">>), text)
ChalkYellow(text) == ChalkStyle(Sgr(<<"3", "3">>), Sgr(<<"3", "9">>), text)

dimFn(enableColors, text) == IF enableColors THEN ChalkDim(text) ELSE text

-----------------------------------------------------------------------------
(* smartTruncateQuery                                                      *)

PARAM_THRESHOLD == 10
showCount == 3

\* A match of /IN\s*\([^)]+\)/i that starts at index i: the index of its
\* opening parenthesis (0 if there is no match at i).
InClauseOpen(q, i) ==
    IF i + 1 > Len(q) \/ ToUpper(q[i]) # "I" \/ ToUpper(q[i + 1]) # "N" THEN 0
    ELSE LET j == SkipSpace(q, i + 2)
         IN  IF j > Len(q) \/ q[j] # "(" THEN 0
             ELSE LET k == IndexOfChar(q, ")", j + 1)
                  IN  IF k = 0 \/ k = j + 1 THEN 0 ELSE j

\* The matches of the global pattern, left to right and not overlapping:
\* each is [start, open, close], the indexes of "I", "(" and ")".
RECURSIVE InClauseScan(_, _, _, _)
InClauseScan(q, starts, from, acc) ==
    LET i == NextIndex(starts, from)
    IN  IF i = 0 THEN acc
        ELSE LET j == InClauseOpen(q, i)
                 k == IndexOfChar(q, ")", j + 1)
             IN  InClauseScan(q, starts, k + 1,
                     Append(acc, [start |-> i, open |-> j, close |-> k]))

InClauseMatches(q) ==
    InClauseScan(q, {i \in DOMAIN q : InClauseOpen(q, i) # 0}, 1, <<>>)

\* TruncateInClause with the threshold test written `<` (a list of exactly
\* PARAM_THRESHOLD items is truncated too)
TruncateInClauseStrict(match, inParams, enableColors) ==
    LET ps == MapTrim(Split(inParams))
    IN  IF Len(ps) < PARAM_THRESHOLD THEN match
        ELSE <<"I", "N", " ", "(">>
             \o JoinComma(FirstN(ps, showCount))
             \o dimFn(enableColors,
                      <<",", ".", ".", ".">> \o NatToStr(Len(ps) - showCount * 2)
                      \o <<" ", "m", "o", "r", "e", ".", ".", ".">>)
             \o <<",">> \o JoinComma(LastN(ps, showCount)) \o <<")">>

\* TruncateInClause with the count of formatArrayForSql in the marker
\* (items above the threshold instead of items left out)
TruncateInClauseMiscount(match, inParams, enableColors) ==
    LET ps == MapTrim(Split(inParams))
    IN  IF Len(ps) <= PARAM_THRESHOLD THEN match
        ELSE <<"I", "N", " ", "(">>
             \o JoinComma(FirstN(ps, showCount))
             \o dimFn(enableColors,
                      <<",", ".", ".", ".">> \o NatToStr(Len(ps) - PARAM_THRESHOLD)
                      \o <<" ", "m", "o", "r", "e", ".", ".", ".">>)
             \o <<",">> \o JoinComma(LastN(ps, showCount)) \o <<")">>

\* TruncateInClause keeping half the threshold at each end, as
\* formatArrayForSql does: what it returns is itself longer than the threshold
TruncateInClauseHalf(match, inParams, enableColors) ==
    LET ps == MapTrim(Split(inParams))
        half == PARAM_THRESHOLD \div 2
    IN  IF Len(ps) <= PARAM_THRESHOLD THEN match
        ELSE <<"I", "N", " ", "(">>
             \o JoinComma(FirstN(ps, half))
             \o dimFn(enableColors,
                      <<",", ".", ".", ".">> \o NatToStr(Len(ps) - half * 2)
                      \o <<" ", "m", "o", "r", "e", ".", ".", ".">>)
             \o <<",">> \o JoinComma(LastN(ps, half)) \o <<")">>

\* the replace callback: (match, inParams) => ...
TruncateInClause(match, inParams, enableColors) ==
    LET ps == MapTrim(Split(inParams))
    IN  IF Len(ps) <= PARAM_THRESHOLD THEN match
        ELSE LET firstParams == JoinComma(FirstN(ps, showCount))
                 lastParams == JoinComma(LastN(ps, showCount))
                 truncatedIn ==
                     firstParams
                     \o dimFn(enableColors,
                              <<",", ".", ".", ".">>
                              \o NatToStr(Len(ps) - showCount * 2)
                              \o <<" ", "m", "o", "r", "e", ".", ".", ".">>)
                     \o <<",">> \o lastParams
             IN  <<"I", "N", " ", "(">> \o truncatedIn \o <<")">>

\* query.replace(/IN\s*\(([^)]+)\)/gi, callback)
RECURSIVE ReplaceInClauses(_, _, _, _, _)
ReplaceInClauses(q, ms, k, from, enableColors) ==
    IF k > Len(ms) THEN Drop(q, from)
    ELSE LET m == ms[k]
         IN  SubSeq(q, from, m.start - 1)
             \o TruncateInClause(SubSeq(q, m.start, m.close),
                                 SubSeq(q, m.open + 1, m.close - 1),
                                 enableColors)
             \o ReplaceInClauses(q, ms, k + 1, m.close + 1, enableColors)

smartTruncateQuery(q, enableColors) ==
    LET ms == InClauseMatches(q)
        hasLargeInClause ==
            \E k \in DOMAIN ms :
                CountChar(SubSeq(q, ms[k].start, ms[k].close), ",") >= PARAM_THRESHOLD - 1
    IN  IF ms = <<>> THEN q
        ELSE IF ~hasLargeInClause THEN q
        ELSE ReplaceInClauses(q, ms, 1, 1, enableColors)

-----------------------------------------------------------------------------
(* JSON values (the JsonValue type).  Every value is a record with the same *)
(* fields; t is the type tag and the other fields are empty when unused.    *)

JNull == [t |-> "null", n |-> 0, b |-> FALSE, s |-> <<>>, a |-> <<>>, k |-> <<>>]
JNum(n) == [t |-> "number", n |-> n, b |-> FALSE, s |-> <<>>, a |-> <<>>, k |-> <<>>]
JBool(b) == [t |-> "boolean", n |-> 0, b |-> b, s |-> <<>>, a |-> <<>>, k |-> <<>>]
JStr(s) == [t |-> "string", n |-> 0, b |-> FALSE, s |-> s, a |-> <<>>, k |-> <<>>]
JArr(a) == [t |-> "array", n |-> 0, b |-> FALSE, s |-> <<>>, a |-> a, k |-> <<>>]
\* an object: k are its keys in insertion order, a the values at those keys
JObj(k, a) == [t |-> "object", n |-> 0, b |-> FALSE, s |-> <<>>, a |-> a, k |-> k]

\* String(n) of an integer
IntToStr(n) == IF n < 0 THEN <<"-">> \o NatToStr(0 - n) ELSE NatToStr(n)

DigitValue(c) == (CHOOSE i \in DOMAIN Digits : Digits[i] = c) - 1

-----------------------------------------------------------------------------
(* JSON.parse.  A parse step returns [ok, v, next]: whether a value was     *)
(* read, the value, and the index after it.  Numbers are integers: the      *)
(* texts parsed here hold no fraction, exponent or \u escape.               *)

ParseFail == [ok |-> FALSE, v |-> JNull, next |-> 0]
ParseOk(v, next) == [ok |-> TRUE, v |-> v, next |-> next]

\* the digits of an integer from index i: [n, next]
RECURSIVE ScanDigits(_, _, _)
ScanDigits(s, i, acc) ==
    IF i <= Len(s) /\ s[i] \in DigitSet
    THEN ScanDigits(s, i + 1, acc * 10 + DigitValue(s[i]))
    ELSE [n |-> acc, next |-> i]

\* int of the JSON grammar: 0, or a non-zero digit followed by digits
JsonNatural(s, i) ==
    IF i > Len(s) \/ s[i] \notin DigitSet THEN ParseFail
    ELSE IF s[i] = "0" THEN ParseOk(JNum(0), i + 1)
    ELSE LET d == ScanDigits(s, i, 0) IN ParseOk(JNum(d.n), d.next)

\* the character a JSON escape \c stands for ("" if \c is no escape)
Unescape(c) ==
    CASE c = "\"" -> "\""
      [] c = "\\" -> "\\"
      [] c = "/" -> "/"
      [] c = "n" -> "LF"
      [] c = "t" -> "TAB"
      [] c = "r" -> "CR"
      [] c = "b" -> "BS"
      [] c = "f" -> "FF"
      [] OTHER -> ""

IsControl(c) == c \in {"LF", "TAB", "CR", "BS", "FF", "ESC"}

\* the body of a JSON string, from the index after its opening quote: the
\* characters up to the next quote, backslash or control character are taken
\* as they are
RECURSIVE JsonStringBody(_, _, _)
JsonStringBody(s, i, acc) ==
    LET k == NextIndex({j \in i..Len(s) : s[j] \in {"\"", "\\"} \/ IsControl(s[j])}, i)
    IN  IF k = 0 THEN ParseFail
        ELSE IF s[k] = "\"" THEN ParseOk(JStr(acc \o SubSeq(s, i, k - 1)), k + 1)
        ELSE IF s[k] = "\\"
             THEN IF k + 1 > Len(s) \/ Unescape(s[k + 1]) = "" THEN ParseFail
                  ELSE JsonStringBody(s, k + 2,
                                      acc \o SubSeq(s, i, k - 1) \o <<Unescape(s[k + 1])>>)
        ELSE ParseFail

RECURSIVE JsonValue(_, _)
RECURSIVE JsonElements(_, _, _)
RECURSIVE JsonMembers(_, _, _, _)

\* a JSON value that starts at index i (white space before it already skipped)
JsonValue(s, i) ==
    IF i > Len(s) THEN ParseFail
    ELSE IF s[i] = "[" THEN
        LET j == SkipSpace(s, i + 1)
        IN  IF j <= Len(s) /\ s[j] = "]" THEN ParseOk(JArr(<<>>), j + 1)
            ELSE JsonElements(s, j, <<>>)
    ELSE IF s[i] = "{" THEN
        LET j == SkipSpace(s, i + 1)
        IN  IF j <= Len(s) /\ s[j] = "}" THEN ParseOk(JObj(<<>>, <<>>), j + 1)
            ELSE JsonMembers(s, j, <<>>, <<>>)
    ELSE IF s[i] = "\"" THEN JsonStringBody(s, i + 1, <<>>)
    ELSE IF s[i] = "-" THEN
        LET r == JsonNatural(s, i + 1)
        IN  IF r.ok THEN ParseOk(JNum(0 - r.v.n), r.next) ELSE ParseFail
    ELSE IF s[i] \in DigitSet THEN JsonNatural(s, i)
    ELSE IF StartsAt(s, <<"t","r","u","e">>, i) THEN ParseOk(JBool(TRUE), i + 4)
    ELSE IF StartsAt(s, <<"f","a","l","s","e">>, i) THEN ParseOk(JBool(FALSE), i + 5)
    ELSE IF StartsAt(s, <<"n","u","l","l">>, i) THEN ParseOk(JNull, i + 4)
    ELSE ParseFail

\* the elements of an array from index i, up to and including its "]"
JsonElements(s, i, acc) ==
    LET r == JsonValue(s, i)
    IN  IF ~r.ok THEN ParseFail
        ELSE LET j == SkipSpace(s, r.next)
             IN  IF j > Len(s) THEN ParseFail
                 ELSE IF s[j] = "]" THEN ParseOk(JArr(Append(acc, r.v)), j + 1)
                 ELSE IF s[j] = ","
                      THEN JsonElements(s, SkipSpace(s, j + 1), Append(acc, r.v))
                 ELSE ParseFail

\* Setting key k of an object: a key that is already there keeps its place.
ObjSet(keys, vals, k, v) ==
    IF \E x \in DOMAIN keys : keys[x] = k
    THEN [keys |-> keys,
          vals |-> [x \in DOMAIN vals |-> IF keys[x] = k THEN v ELSE vals[x]]]
    ELSE [keys |-> Append(keys, k), vals |-> Append(vals, v)]

\* the members of an object from index i, up to and including its "}"
JsonMembers(s, i, keys, vals) ==
    IF i > Len(s) \/ s[i] # "\"" THEN ParseFail
    ELSE LET kr == JsonStringBody(s, i + 1, <<>>)
         IN  IF ~kr.ok THEN ParseFail
             ELSE LET c == SkipSpace(s, kr.next)
                  IN  IF c > Len(s) \/ s[c] # ":" THEN ParseFail
                      ELSE LET r == JsonValue(s, SkipSpace(s, c + 1))
                           IN  IF ~r.ok THEN ParseFail
                               ELSE LET j == SkipSpace(s, r.next)
                                        o == ObjSet(keys, vals, kr.v.s, r.v)
                                    IN  IF j > Len(s) THEN ParseFail
                                        ELSE IF s[j] = "}"
                                             THEN ParseOk(JObj(o.keys, o.vals), j + 1)
                                        ELSE IF s[j] = ","
                                             THEN JsonMembers(s, SkipSpace(s, j + 1),
                                                              o.keys, o.vals)
                                        ELSE ParseFail

\* JSON.parse(text): [ok, v]; ok = FALSE stands for the SyntaxError it throws
JsonParse(text) ==
    LET r == JsonValue(text, SkipSpace(text, 1))
    IN  IF r.ok /\ SkipSpace(text, r.next) > Len(text)
        THEN [ok |-> TRUE, v |-> r.v]
        ELSE [ok |-> FALSE, v |-> JNull]

-----------------------------------------------------------------------------
(* createTruncateForLog (utils.ts)                                          *)

NestedObjectMarker == JStr(<<"[", "N", "e", "s", "t", "e", "d", " ", "O", "b", "j", "e", "c", "t", "]">>)
MoreItemsMarker(n) ==
    JStr(<<"[", ".", ".", ".">> \o IntToStr(n) \o <<" ", "m", "o", "r", "e", " ", "i", "t", "e", "m", "s", ".", ".", ".", "]">>)
MorePropertiesMarker(n) ==
    JStr(<<"[", ".", ".", ".">> \o IntToStr(n) \o <<" ", "m", "o", "r", "e", " ", "p", "r", "o", "p", "e", "r", "t", "i", "e", "s", ".", ".", ".", "]">>)
TruncatedKey == <<"_", "_", "t", "r", "u", "n", "c", "a", "t", "e", "d">>
Ellipsis == <<".", ".", ".">>

\* Object.fromEntries: a repeated key keeps its first place and its last value
RECURSIVE FromEntries(_, _, _, _)
FromEntries(keys, vals, i, acc) ==
    IF i > Len(keys) THEN JObj(acc.keys, acc.vals)
    ELSE FromEntries(keys, vals, i + 1, ObjSet(acc.keys, acc.vals, keys[i], vals[i]))

\* a depth test that lets one level less through
IsTooDeepAtThree(depth) == depth > 2

\* if (depth > 3) return '[Nested Object]'
IsTooDeep(depth) == depth > 3

RECURSIVE truncateForLog(_, _, _)
truncateForLog(cfg, value, depth) ==
    IF IsTooDeep(depth) THEN NestedObjectMarker
    ELSE IF value.t = "array" THEN
        IF Len(value.a) <= cfg.maxArrayLength
        THEN JArr([i \in DOMAIN value.a |-> truncateForLog(cfg, value.a[i], depth + 1)])
        ELSE LET itemsToShow == cfg.maxArrayLength \div 2
                 firstItems == FirstN(value.a, itemsToShow)
                 lastItems == LastN(value.a, itemsToShow)
             IN  JArr([i \in DOMAIN firstItems |->
                          truncateForLog(cfg, firstItems[i], depth + 1)]
                      \o <<MoreItemsMarker(Len(value.a) - cfg.maxArrayLength)>>
                      \o [i \in DOMAIN lastItems |->
                          truncateForLog(cfg, lastItems[i], depth + 1)])
    ELSE IF value.t = "string" /\ Len(value.s) > cfg.maxStringLength
         THEN JStr(FirstN(value.s, cfg.maxStringLength) \o Ellipsis)
    ELSE IF value.t = "object" THEN
        IF Len(value.k) <= cfg.maxObjectKeys
        THEN JObj(value.k,
                  [i \in DOMAIN value.a |-> truncateForLog(cfg, value.a[i], depth + 1)])
        ELSE LET keysToShow == cfg.maxObjectKeys \div 2
                 ks == FirstN(value.k, keysToShow) \o LastN(value.k, keysToShow)
                 vs == FirstN(value.a, keysToShow) \o LastN(value.a, keysToShow)
                 truncatedObj ==
                     FromEntries(ks,
                                 [i \in DOMAIN vs |-> truncateForLog(cfg, vs[i], depth + 1)],
                                 1, [keys |-> <<>>, vals |-> <<>>])
                 o == ObjSet(truncatedObj.k, truncatedObj.a, TruncatedKey,
                             MorePropertiesMarker(Len(value.k) - cfg.maxObjectKeys))
             IN  JObj(o.keys, o.vals)
    ELSE value

-----------------------------------------------------------------------------
(* JSON.stringify of a JsonValue                                            *)

\* a character inside a JSON string literal
QuoteChar(c) ==
    CASE c = "\"" -> <<"\\", "\"">>
      [] c = "\\" -> <<"\\", "\\">>
      [] c = "LF" -> <<"\\", "n">>
      [] c = "TAB" -> <<"\\", "t">>
      [] c = "CR" -> <<"\\", "r">>
      [] c = "BS" -> <<"\\", "b">>
      [] c = "FF" -> <<"\\", "f">>
      [] c = "ESC" -> <<"\\", "u", "0", "0", "1", "b">>
      [] OTHER -> <<c>>

QuoteString(s) ==
    <<"\"">> \o Flatten([i \in DOMAIN s |-> QuoteChar(s[i])]) \o <<"\"">>

RECURSIVE JsonStringify(_)
JsonStringify(v) ==
    CASE v.t = "null" -> <<"n", "u", "l", "l">>
      [] v.t = "number" -> IntToStr(v.n)
      [] v.t = "boolean" -> IF v.b THEN <<"t", "r", "u", "e">>
                            ELSE <<"f", "a", "l", "s", "e">>
      [] v.t = "string" -> QuoteString(v.s)
      [] v.t = "array" ->
            <<"[">> \o JoinComma([i \in DOMAIN v.a |-> JsonStringify(v.a[i])]) \o <<"]">>
      [] v.t = "object" ->
            <<"{">>
            \o JoinComma([i \in DOMAIN v.a |->
                   QuoteString(v.k[i]) \o <<":">> \o JsonStringify(v.a[i])])
            \o <<"}">>

-----------------------------------------------------------------------------
(* formatArrayForSql and formatParamValue                                   *)

MAX_INLINE_ITEMS == 10

\* String(value) of a primitive
PrimitiveToString(v) ==
    CASE v.t = "null" -> <<"n", "u", "l", "l">>
      [] v.t = "number" -> IntToStr(v.n)
      [] v.t = "boolean" -> IF v.b THEN <<"t", "r", "u", "e">>
                            ELSE <<"f", "a", "l", "s", "e">>
      [] v.t = "string" -> v.s

IsPrimitive(v) == v.t \in {"string", "number", "boolean", "null"}

\* Array.prototype.join(',') of primitives: null joins as the empty string
ArrayJoin(arr) ==
    JoinComma([i \in DOMAIN arr |->
                  IF arr[i].t = "null" THEN <<>> ELSE PrimitiveToString(arr[i])])

\* formatArrayForSql keeping showCount items on each side, as the truncation
\* of IN clauses does
formatArrayForSqlLikeInClause(arr, enableColors) ==
    IF Len(arr) <= MAX_INLINE_ITEMS THEN ArrayJoin(arr)
    ELSE ArrayJoin(FirstN(arr, showCount))
         \o dimFn(enableColors,
                  <<",", ".", ".", ".">>
                  \o IntToStr(Len(arr) - 2 * showCount)
                  \o <<" ", "m", "o", "r", "e", ".", ".", ".">>)
         \o <<",">> \o ArrayJoin(LastN(arr, showCount))

formatArrayForSql(arr, enableColors) ==
    IF Len(arr) <= MAX_INLINE_ITEMS THEN ArrayJoin(arr)
    ELSE LET halfShow == MAX_INLINE_ITEMS \div 2
             firstItems == FirstN(arr, halfShow)
             lastItems == LastN(arr, halfShow)
         IN  ArrayJoin(firstItems)
             \o dimFn(enableColors,
                      <<",", ".", ".", ".">>
                      \o IntToStr(Len(arr) - MAX_INLINE_ITEMS)
                      \o <<" ", "m", "o", "r", "e", ".", ".", ".">>)
             \o <<",">> \o ArrayJoin(lastItems)

\* formatParamValue with the length test of strings written `>=`
formatParamValueStrict(param, cfg) ==
    LET displayParam ==
            IF param.t = "string" /\ Len(param.s) >= cfg.maxStringLength
            THEN <<"'">> \o FirstN(param.s, cfg.maxStringLength)
                 \o Ellipsis \o <<"'">>
            ELSE IF param.t = "string" THEN <<"'">> \o param.s \o <<"'">>
            ELSE PrimitiveToString(param)
    IN  IF cfg.enableColors THEN ChalkBold(displayParam) ELSE displayParam

formatParamValue(param, cfg) ==
    LET displayParam ==
            IF param.t = "array" THEN
                IF (\A i \in DOMAIN param.a : IsPrimitive(param.a[i]))
                   /\ Len(param.a) > 10
                THEN formatArrayForSql(param.a, cfg.enableColors)
                ELSE JsonStringify(truncateForLog(cfg, param, 0))
            ELSE IF param.t = "string" /\ Len(param.s) > cfg.maxStringLength
                 THEN <<"'">> \o FirstN(param.s, cfg.maxStringLength)
                      \o Ellipsis \o <<"'">>
            ELSE IF param.t = "object" THEN JsonStringify(truncateForLog(cfg, param, 0))
            ELSE IF param.t = "string" THEN <<"'">> \o param.s \o <<"'">>
            ELSE PrimitiveToString(param)
    IN  IF cfg.enableColors THEN ChalkBold(displayParam) ELSE displayParam

-----------------------------------------------------------------------------
(* replaceParamsInQuery                                                     *)

\* GetSubstitution of String.prototype.replace for a pattern without capture
\* groups: $$ is "$", $& the match, $` the text before the match, $' the text
\* after it; any other "$" (also "$1") stands for itself. The grave accent is
\* written "GRAVE".
RECURSIVE GetSubstitution(_, _, _, _, _)
GetSubstitution(repl, i, matched, before, after) ==
    LET k == NextIndex({j \in i..(Len(repl) - 1) :
                           repl[j] = "$" /\ repl[j + 1] \in {"$", "&", "GRAVE", "'"}}, i)
    IN  IF k = 0 THEN Drop(repl, i)
        ELSE SubSeq(repl, i, k - 1)
             \o (CASE repl[k + 1] = "$" -> <<"$">>
                    [] repl[k + 1] = "&" -> matched
                    [] repl[k + 1] = "GRAVE" -> before
                    [] repl[k + 1] = "'" -> after)
             \o GetSubstitution(repl, k + 2, matched, before, after)

\* whether placeholder ph, followed by \b, matches text at index i
PlaceholderAt(text, ph, i) ==
    /\ StartsAt(text, ph, i)
    /\ \/ i + Len(ph) > Len(text)
       \/ ~IsWordChar(text[i + Len(ph)])

\* text.replace(new RegExp(`\\${ph}\\b`, 'g'), repl)
RECURSIVE ReplacePlaceholder(_, _, _, _)
ReplacePlaceholder(text, ph, repl, i) ==
    LET k == NextIndex({j \in i..Len(text) : PlaceholderAt(text, ph, j)}, i)
    IN  IF k = 0 THEN Drop(text, i)
        ELSE SubSeq(text, i, k - 1)
             \o GetSubstitution(repl, 1, ph, SubSeq(text, 1, k - 1),
                                Drop(text, k + Len(ph)))
             \o ReplacePlaceholder(text, ph, repl, k + Len(ph))

placeholderAtP(index) == <<"@", "P">> \o IntToStr(index + 1)
placeholderDollar(index) == <<"$">> \o IntToStr(index + 1)

\* one turn of the forEach callback, for the parameter at (0-based) index
ReplaceOneParam(formattedQuery, param, index, cfg) ==
    LET displayParam == formatParamValue(param, cfg)
        afterAtP == ReplacePlaceholder(formattedQuery, placeholderAtP(index), displayParam, 1)
    IN  IF Len(afterAtP) = 0 THEN afterAtP
        ELSE ReplacePlaceholder(afterAtP, placeholderDollar(index), displayParam, 1)

\* formattedQuery after the first k turns of paramArray.forEach
RECURSIVE ReplaceFirstParams(_, _, _, _)
ReplaceFirstParams(q, arr, k, cfg) ==
    IF k = 0 THEN q
    ELSE LET formattedQuery == ReplaceFirstParams(q, arr, k - 1, cfg)
         IN  IF Len(formattedQuery) = 0 THEN formattedQuery
             ELSE ReplaceOneParam(formattedQuery, arr[k], k - 1, cfg)

replaceParamsInQuery(q, arr, cfg) == ReplaceFirstParams(q, arr, Len(arr), cfg)

-----------------------------------------------------------------------------
(* highlightSqlKeywords                                                     *)

SQL_KEYWORDS == <<
    <<"S", "E", "L", "E", "C", "T">>,
    <<"F", "R", "O", "M">>,
    <<"W", "H", "E", "R", "E">>,
    <<"I", "N", "S", "E", "R", "T">>,
    <<"U", "P", "D", "A", "T", "E">>,
    <<"D", "E", "L", "E", "T", "E">>,
    <<"C", "R", "E", "A", "T", "E">>,
    <<"A", "L", "T", "E", "R">>,
    <<"D", "R", "O", "P">>,
    <<"J", "O", "I", "N">>,
    <<"L", "E", "F", "T">>,
    <<"R", "I", "G", "H", "T">>,
    <<"I", "N", "N", "E", "R">>,
    <<"O", "U", "T", "E", "R">>,
    <<"O", "N">>,
    <<"A", "S">>,
    <<"A", "N", "D">>,
    <<"O", "R">>,
    <<"N", "O", "T">>,
    <<"I", "N">>,
    <<"O", "R", "D", "E", "R", " ", "B", "Y">>,
    <<"G", "R", "O", "U", "P", " ", "B", "Y">>,
    <<"H", "A", "V", "I", "N", "G">>,
    <<"L", "I", "M", "I", "T">>,
    <<"O", "F", "F", "S", "E", "T">>,
    <<"S", "E", "T">>,
    <<"V", "A", "L", "U", "E", "S">>,
    <<"I", "N", "T", "O">>,
    <<"B", "E", "G", "I", "N">>,
    <<"C", "O", "M", "M", "I", "T">>,
    <<"R", "O", "L", "L", "B", "A", "C", "K">>,
    <<"T", "R", "A", "N", "S", "A", "C", "T", "I", "O", "N">>,
    <<"A", "S", "C">>,
    <<"D", "E", "S", "C">>,
    <<"D", "I", "S", "T", "I", "N", "C", "T">>,
    <<"C", "O", "U", "N", "T">>,
    <<"S", "U", "M">>,
    <<"A", "V", "G">>,
    <<"M", "I", "N">>,
    <<"M", "A", "X">>,
    <<"C", "A", "S", "E">>,
    <<"W", "H", "E", "N">>,
    <<"T", "H", "E", "N">>,
    <<"E", "L", "S", "E">>,
    <<"E", "N", "D">>,
    <<"I", "S">>,
    <<"N", "U", "L", "L">>,
    <<"E", "X", "I", "S", "T", "S">>,
    <<"B", "E", "T", "W", "E", "E", "N">>,
    <<"L", "I", "K", "E">>,
    <<"I", "L", "I", "K", "E">>>>

\* whether keyword kw, between two \b and ignoring case, matches text at i
KeywordAt(text, kw, i) ==
    /\ i + Len(kw) - 1 <= Len(text)
    /\ \A j \in 1..Len(kw) : ToUpper(text[i + j - 1]) = kw[j]
    /\ (i = 1 \/ ~IsWordChar(text[i - 1]))
    /\ (i + Len(kw) > Len(text) \/ ~IsWordChar(text[i + Len(kw)]))

\* text.replace(new RegExp(`\\b${kw}\\b`, 'gi'), (match) => chalk.cyan(match))
RECURSIVE HighlightKeyword(_, _, _)
HighlightKeyword(text, kw, i) ==
    LET k == NextIndex({j \in i..Len(text) : KeywordAt(text, kw, j)}, i)
    IN  IF k = 0 THEN Drop(text, i)
        ELSE SubSeq(text, i, k - 1)
             \o ChalkCyan(SubSeq(text, k, k + Len(kw) - 1))
             \o HighlightKeyword(text, kw, k + Len(kw))

\* SQL_KEYWORDS.forEach for the keywords lo..hi, in order
RECURSIVE HighlightKeywords(_, _, _)
HighlightKeywords(text, lo, hi) ==
    IF lo > hi THEN text
    ELSE IF lo = hi THEN HighlightKeyword(text, SQL_KEYWORDS[lo], 1)
    ELSE LET mid == (lo + hi) \div 2
             highlighted == HighlightKeywords(text, lo, mid)
         IN  IF Len(highlighted) = 0 THEN highlighted
             ELSE HighlightKeywords(highlighted, mid + 1, hi)

\* text.replace(/"([^"]+)"/g, (match) => chalk.yellow(match))
RECURSIVE HighlightQuoted(_, _)
HighlightQuoted(text, i) ==
    LET k == NextIndex({j \in i..Len(text) :
                           /\ text[j] = "\""
                           /\ IndexOfChar(text, "\"", j + 1) > j + 1}, i)
    IN  IF k = 0 THEN Drop(text, i)
        ELSE LET e == IndexOfChar(text, "\"", k + 1)
             IN  SubSeq(text, i, k - 1) \o ChalkYellow(SubSeq(text, k, e))
                 \o HighlightQuoted(text, e + 1)

highlightSqlKeywords(q) == HighlightQuoted(HighlightKeywords(q, 1, Len(SQL_KEYWORDS)), 1)

-----------------------------------------------------------------------------
(* parseQueryParams and manualParseArray                                    *)

\* What parseQueryParams returns: a JSON value, or null for "no parameters".
NoParams == [isNull |-> TRUE, v |-> JNull]
Parsed(v) == [isNull |-> FALSE, v |-> v]

\* params.replace(/(^|[^\\])"/g, '$1\\"'): a double quote, together with the
\* character before it when that is no backslash, gets a backslash
\* a match starts at j when j = 1 holds the quote, or j holds a character
\* other than a backslash and j + 1 the quote
SanitizeAt(text, j) ==
    \/ j = 1 /\ text[1] = "\""
    \/ text[j] # "\\" /\ j < Len(text) /\ text[j + 1] = "\""

\* a sanitizer that removes the double quotes
StripQuotes(text, i) == SelectSeq(Drop(text, i), LAMBDA c : c # "\"")

RECURSIVE SanitizeQuotes(_, _)
SanitizeQuotes(text, i) ==
    LET k == NextIndex({j \in i..Len(text) : SanitizeAt(text, j)}, i)
    IN  IF k = 0 THEN Drop(text, i)
        ELSE IF k = 1 /\ text[1] = "\""
             THEN <<"\\", "\"">> \o SanitizeQuotes(text, 2)
        ELSE SubSeq(text, i, k - 1) \o <<text[k], "\\", "\"">>
             \o SanitizeQuotes(text, k + 2)

\* a scanning loop that splits at every comma that is not escaped
RECURSIVE ManualScanSplitAll(_, _, _)
ManualScanSplitAll(content, i, st) ==
    IF i > Len(content) THEN st
    ELSE LET char == content[i]
         IN  ManualScanSplitAll(content, i + 1,
                 IF st.escapeNext
                 THEN [st EXCEPT !.current = Append(@, char), !.escapeNext = FALSE]
                 ELSE IF char = "\\"
                 THEN [st EXCEPT !.current = Append(@, char), !.escapeNext = TRUE]
                 ELSE IF char = ","
                 THEN [st EXCEPT !.elements = Append(@, Trim(st.current)),
                                 !.current = <<>>]
                 ELSE [st EXCEPT !.current = Append(@, char)])

\* the scanning loop of manualParseArray: st is [elements, current, inQuotes,
\* escapeNext]
RECURSIVE ManualScan(_, _, _)
ManualScan(content, i, st) ==
    IF i > Len(content) THEN st
    ELSE LET char == content[i]
         IN  ManualScan(content, i + 1,
                 IF st.escapeNext
                 THEN [st EXCEPT !.current = Append(@, char), !.escapeNext = FALSE]
                 ELSE IF char = "\\"
                 THEN [st EXCEPT !.current = Append(@, char), !.escapeNext = TRUE]
                 ELSE IF char = "\""
                 THEN [st EXCEPT !.current = Append(@, char), !.inQuotes = ~@]
                 ELSE IF char = "," /\ ~st.inQuotes
                 THEN [st EXCEPT !.elements = Append(@, Trim(st.current)),
                                 !.current = <<>>]
                 ELSE [st EXCEPT !.current = Append(@, char)])

\* try { return JSON.parse(el) } catch { return el }
ParsedOrText(r, el) == IF r.ok THEN r.v ELSE JStr(el)

\* the callback of elements.map in manualParseArray, el being trimmed
ManualValue(el) ==
    IF el # <<>> /\ el[1] = "\"" /\ el[Len(el)] = "\""
    THEN JStr(SubSeq(el, 2, Len(el) - 1))
    ELSE ParsedOrText(JsonParse(el), el)

ManualElement(element) == ManualValue(Trim(element))

manualParseArray(text) ==
    LET content == Trim(SubSeq(text, 2, Len(text) - 1))
    IN  IF content = <<>> THEN Parsed(JArr(<<>>))
        ELSE LET st == ManualScan(content, 1,
                           [elements |-> <<>>, current |-> <<>>,
                            inQuotes |-> FALSE, escapeNext |-> FALSE])
                 elements == IF Trim(st.current) # <<>>
                             THEN Append(st.elements, Trim(st.current))
                             ELSE st.elements
             IN  Parsed(JArr([i \in DOMAIN elements |-> ManualElement(elements[i])]))

\* try { return JSON.parse(...) } catch { ... }: the value parsed, or what
\* the catch branch returns
ParsedOr(r, caught) == IF r.ok THEN Parsed(r.v) ELSE caught

\* a catch branch that hands every text to manualParseArray
ParseFallbackUnguarded(text) ==
    ParsedOr(JsonParse(SanitizeQuotes(text, 1)), manualParseArray(text))

\* the catch branch of parseQueryParams
ParseFallback(text) ==
    IF text # <<>> /\ text[1] = "[" /\ text[Len(text)] = "]"
    THEN ParsedOr(JsonParse(SanitizeQuotes(text, 1)), manualParseArray(text))
    ELSE NoParams

\* a try block that does not parse a string once more
ParseDecodedOnce(parsed, caught) ==
    IF ~parsed.ok THEN caught ELSE Parsed(parsed.v)

\* the try block of parseQueryParams, parsed being the outcome of the first
\* JSON.parse: a string is parsed once more
ParseDecoded(parsed, caught) ==
    IF ~parsed.ok THEN caught
    ELSE IF parsed.v.t = "string" THEN ParsedOr(JsonParse(parsed.v.s), caught)
    ELSE Parsed(parsed.v)

parseQueryParams(text) == ParseDecoded(JsonParse(text), ParseFallback(text))

-----------------------------------------------------------------------------
(* formatSqlQuery                                                           *)

\* the value of an absent params argument
Undefined == <<"UNDEFINED">>

Return(text) == [kind |-> "return", text |-> text]
Throw == [kind |-> "throw", text |-> <<>>]

\* The customQueryFormatter functions of the model: none configured; the
\* formatter of DEFAULT_CONFIG, which returns the query; a formatter that
\* prefixes the query; a formatter that throws.
CustomFormatters == {"none", "default", "prefix", "throws"}

customQueryFormatter(kind, q, p) ==
    CASE kind = "default" -> Return(q)
      [] kind = "prefix" -> Return(<<"C", "U", "S", "T", "O", "M", ":", " ">> \o q)
      [] kind = "throws" -> Throw

\* JavaScript truthiness of what parseQueryParams returned
Truthy(r) ==
    /\ ~r.isNull
    /\ CASE r.v.t = "null" -> FALSE
         [] r.v.t = "boolean" -> r.v.b
         [] r.v.t = "number" -> r.v.n # 0
         [] r.v.t = "string" -> r.v.s # <<>>
         [] OTHER -> TRUE

\* if (parsedParams) formattedQuery = replaceParamsInQuery(query, paramArray),
\* paramArray being parsedParams when that is an array, else []
SubstituteParsed(q, parsedParams, cfg) ==
    IF Truthy(parsedParams)
    THEN replaceParamsInQuery(
             q, IF parsedParams.v.t = "array" THEN parsedParams.v.a ELSE <<>>, cfg)
    ELSE q

\* if (params && params.trim() !== '') { try { ... } catch { } }
Substitute(q, p, cfg) ==
    IF p # Undefined /\ Trim(p) # <<>>
    THEN SubstituteParsed(q, parseQueryParams(p), cfg)
    ELSE q

\* if (enableColors) formattedQuery = highlightSqlKeywords(formattedQuery)
Highlight(formattedQuery, cfg) ==
    IF cfg.enableColors THEN highlightSqlKeywords(formattedQuery) ELSE formattedQuery

\* the text formatSqlQuery hands to smartTruncateQuery when no custom
\* formatter is configured
SubstituteAndHighlight(q, p, cfg) == Highlight(Substitute(q, p, cfg), cfg)

\* a formatSqlQuery that truncates what the custom formatter returned
formatSqlQueryTruncatingCustom(q, p, cfg) ==
    IF cfg.customQueryFormatter \in {"default", "prefix"}
    THEN Return(smartTruncateQuery(customQueryFormatter(cfg.customQueryFormatter, q, p).text,
                                   cfg.enableColors))
    ELSE IF cfg.customQueryFormatter # "none"
    THEN customQueryFormatter(cfg.customQueryFormatter, q, p)
    ELSE Return(smartTruncateQuery(SubstituteAndHighlight(q, p, cfg), cfg.enableColors))

\* a formatSqlQuery that catches what the custom formatter throws and falls
\* back to the built-in formatting
formatSqlQueryCatching(q, p, cfg) ==
    IF cfg.customQueryFormatter # "none"
       /\ customQueryFormatter(cfg.customQueryFormatter, q, p).kind = "return"
    THEN customQueryFormatter(cfg.customQueryFormatter, q, p)
    ELSE Return(smartTruncateQuery(SubstituteAndHighlight(q, p, cfg), cfg.enableColors))

formatSqlQuery(q, p, cfg) ==
    IF cfg.customQueryFormatter # "none"
    THEN customQueryFormatter(cfg.customQueryFormatter, q, p)
    ELSE Return(smartTruncateQuery(SubstituteAndHighlight(q, p, cfg), cfg.enableColors))

\* the calls of config.customQueryFormatter one formatSqlQuery call makes
CustomCalls(q, p, cfg) ==
    IF cfg.customQueryFormatter # "none"
    THEN <<[query |-> q, params |-> p]>>
    ELSE <<>>

-----------------------------------------------------------------------------
(* The query texts of the model.  A query is put together from sections:    *)
(* each section is some leading text followed, when kw is not empty, by a   *)
(* parenthesized comma-separated list: lead kw item,item,... close.         *)

Section(lead, kw, items, close) ==
    [lead |-> lead, kw |-> kw, items |-> items, close |-> close]

Literal(text) == Section(text, <<>>, <<>>, <<>>)

SectionText(sec) == sec.lead \o sec.kw \o JoinComma(sec.items) \o sec.close

ShapeText(sh) == Flatten([i \in DOMAIN sh |-> SectionText(sh[i])])

\* the i-th item of a list, by the style of the list
Item(style, i) ==
    CASE style = "num" -> NatToStr(i)
      [] style = "atP" -> <<"@", "P">> \o NatToStr(i)
      [] style = "spaced" -> <<" ", "$">> \o NatToStr(i)
      [] style = "padded" -> <<" ", "c">> \o NatToStr(i) \o <<" ">>
      [] style = "empty" -> <<>>
      [] style = "nested" -> IF i = 1 THEN <<"i", "n", " ", "(", "1">> ELSE NatToStr(i)

Items(style, n) == [i \in 1..n |-> Item(style, i)]

\* the first list of a query: leading text, spelling of IN (, item style
FirstLists == {
    [lead |-> <<"W", "H", "E", "R", "E", " ", "a", " ">>, kw |-> <<"I", "N", " ", "(">>, style |-> "num"],
    [lead |-> <<"W", "H", "E", "R", "E", " ", "a", " ">>, kw |-> <<"i", "n", "(">>, style |-> "atP"],
    [lead |-> <<"x", " ">>, kw |-> <<"I", "n", " ", " ", "(">>, style |-> "spaced"],
    [lead |-> <<>>, kw |-> <<"I", "N", " ", "(">>, style |-> "padded"],
    [lead |-> <<"a", " ", "N", "O", "T", " ">>, kw |-> <<"I", "N", " ", "(">>, style |-> "empty"],
    [lead |-> <<"b", " ">>, kw |-> <<"I", "N", " ", "(">>, style |-> "nested"],
    [lead |-> <<"S", "E", "L", "E", "C", "T", " ", "M">>, kw |-> <<"I", "N", "(">>, style |-> "num"],
    [lead |-> <<"t", " ", "J", "O">>, kw |-> <<"I", "N", " ", "(">>, style |-> "padded"] }

\* what follows the first list: nothing, plain text, or a second list
SecondLists ==
    { <<>>, <<Literal(<<" ", "O", "R", "D", "E", "R", " ", "B", "Y", " ", "c">>)>> }
    \cup { <<Section(<<" ", "A", "N", "D", " ", "b", " ">>, <<"I", "N", " ", "(">>, Items(st, n), cl)>> :
             st \in {"num", "atP"}, n \in {2, PARAM_THRESHOLD, PARAM_THRESHOLD + 1},
             cl \in {<<")">>, <<>>} }

TruncateShapes ==
    { <<Section(f.lead, f.kw, Items(f.style, n), <<")">>)>> \o rest :
        f \in FirstLists, n \in 0..MaxItems, rest \in SecondLists }

DefaultConfig ==
    [enableColors |-> FALSE, maxStringLength |-> 100, maxArrayLength |-> 5,
     maxObjectKeys |-> 20, customQueryFormatter |-> "default",
     slowRequestThreshold |-> 1000]

-----------------------------------------------------------------------------
(* The truncator on its own: smartTruncateQuery applied to a query text,    *)
(* and applied once more to what it returned.                               *)

InitTruncate ==
    /\ shape \in TruncateShapes
    /\ query = ShapeText(shape)
    /\ params = Undefined
    /\ paramArray = <<>>
    /\ \E colors \in BOOLEAN : config = [DefaultConfig EXCEPT !.enableColors = colors]
    /\ pc = "ready"
    /\ result = Return(<<>>)
    /\ again = Return(<<>>)
    /\ calls = <<>>
    /\ frames = <<>>

SmartTruncate ==
    /\ pc = "ready"
    /\ result' = Return(smartTruncateQuery(query, config.enableColors))
    /\ pc' = "truncated"
    /\ UNCHANGED <<shape, query, params, paramArray, config, again, calls, frames>>

SmartTruncateAgain ==
    /\ pc = "truncated"
    /\ again' = Return(smartTruncateQuery(result.text, config.enableColors))
    /\ pc' = "twice"
    /\ UNCHANGED <<shape, query, params, paramArray, config, result, calls, frames>>

NextTruncate == SmartTruncate \/ SmartTruncateAgain

SpecTruncate == InitTruncate /\ [][NextTruncate]_vars

-----------------------------------------------------------------------------
(* Placeholder substitution on its own: replaceParamsInQuery applied to a   *)
(* query and a parsed parameter list.  Here a query is put together from    *)
(* pieces: literal text, or a placeholder (@P or $) with its index.         *)

Piece(style, index, text) == [style |-> style, index |-> index, text |-> text]
Text(text) == Piece("text", 0, text)
AtP(index) == Piece("atP", index, <<"@", "P">> \o NatToStr(index))
Dollar(index) == Piece("dollar", index, <<"$">> \o NatToStr(index))

PiecesText(ps) == Flatten([i \in DOMAIN ps |-> ps[i].text])

ReplaceShapes ==
    { <<Text(<<"i", "d", " ", "=", " ">>), AtP(i), Text(<<" ", "A", "N", "D", " ", "n", " ", "=", " ">>), Dollar(j)>> :
        i \in {1, 2}, j \in 1..(MaxParams + 1) }
    \cup { <<Text(<<"I", "N", " ", "(">>), Dollar(i), Text(<<",">>), AtP(1), Text(<<",">>),
             AtP(i), Text(<<",">>), Dollar(1), Text(<<")">>)>> :
             i \in 1..(MaxParams + 1) }
    \cup { <<AtP(1), Text(<<",">>), AtP(2), Text(<<",">>), AtP(3), Text(<<",">>),
             AtP(4), Text(<<",">>), AtP(5), Text(<<",">>), AtP(6)>>,
           <<Dollar(1), Text(<<",">>), Dollar(2), Text(<<",">>), Dollar(3), Text(<<",">>),
             Dollar(4), Text(<<",">>), Dollar(5), Text(<<",">>), Dollar(6)>>,
           <<Text(<<"S", "E", "L", "E", "C", "T", " ", "1">>)>>,
           <<Text(<<"S", "E", "L", "E", "C", "T", " ", "$">>), Dollar(1), Text(<<"$", "$">>)>>,
           <<Text(<<"x", " ", "=", " ", "@", "P">>), AtP(1)>> }

John == <<"J", "o", "h", "n">>

\* parameter values with a meaning of their own for String.prototype.replace
\* or for a later turn of the substitution
SpecialValues ==
    { JStr(John), JNull, JBool(TRUE), JBool(FALSE), JNum(0),
      JStr(<<"$", "&">>), JStr(<<"a", "$", "2">>), JStr(<<"@", "P", "2">>),
      JStr(<<"p", "$">>), JStr(<<"$", "$">>), JStr(<<>>) }

\* the parameters 1, 2, ..., n, with value v at position at (at = 0: nowhere)
Numbered(n, at, v) == [i \in 1..n |-> IF i = at THEN v ELSE JNum(i)]

ParamLists ==
    { Numbered(n, 0, JNull) : n \in 0..MaxParams }
    \cup { Numbered(n, at, v) : n \in 1..MaxParams, at \in {1, 2, 10}, v \in SpecialValues }
    \cup { <<JNum(1), JNum(2), JNum(3), JStr(John), JNull, JBool(TRUE)>>,
           <<JNum(2), JNum(9)>> }

InitReplace ==
    /\ shape \in ReplaceShapes
    /\ query = PiecesText(shape)
    /\ params = Undefined
    /\ paramArray \in ParamLists
    /\ \E colors \in BOOLEAN : config = [DefaultConfig EXCEPT !.enableColors = colors]
    /\ pc = "ready"
    /\ result = Return(<<>>)
    /\ again = Return(<<>>)
    /\ calls = <<>>
    /\ frames = <<>>

ReplaceParams ==
    /\ pc = "ready"
    /\ result' = Return(replaceParamsInQuery(query, paramArray, config))
    /\ pc' = "replaced"
    /\ UNCHANGED <<shape, query, params, paramArray, config, again, calls, frames>>

NextReplace == ReplaceParams

SpecReplace == InitReplace /\ [][NextReplace]_vars

-----------------------------------------------------------------------------
(* The whole formatter: formatSqlQuery applied to a query text and the      *)
(* parameter string of the database driver, under a configuration.          *)

FormatShapes ==
    { <<Literal(<<"S", "E", "L", "E", "C", "T", " ", "*", " ", "F", "R", "O", "M", " ", "U", "s", "e", "r", "s", " ", "W", "H", "E", "R", "E", " ", "i", "d", " ", "=", " ", "@", "P", "1", " ", "A", "N", "D", " ", "n", "a", "m", "e", " ", "=", " ", "@", "P", "2">>)>>,
      <<Literal(<<"x", " ", "=", " ", "$", "1">>)>>,
      <<Section(<<"S", "E", "L", "E", "C", "T", " ", "M", "I", "N">>, <<"(">>, Items("atP", 1), <<")">>)>> }
    \cup { <<Section(<<"W", "H", "E", "R", "E", " ", "a", " ">>, <<"I", "N", " ", "(">>, Items(st, n), <<")">>)>> :
             st \in {"atP", "num"}, n \in {1, PARAM_THRESHOLD + 1, MaxItems} }

\* a parameter string as the driver writes it, and the list it encodes
Encoded(list) == [text |-> JsonStringify(JArr(list)), list |-> list]
DoubleEncoded(list) ==
    [text |-> JsonStringify(JStr(JsonStringify(JArr(list)))), list |-> list]
Malformed(text) == [text |-> text, list |-> <<>>]

\* parameter strings no stage of parseQueryParams decodes
UndecodableInputs ==
    { Malformed(<<"n", "o", "t", "-", "v", "a", "l", "i", "d", "-", "j", "s", "o", "n">>),
      Malformed(<<"{", "i", "n", "v", "a", "l", "i", "d", "}">>),
      Malformed(<<"[", "1", ",", "2">>),
      Malformed(<<"1", ",", "2", "]">>),
      Malformed(<<"\"", "[", "1", ",", "2">>) }

\* parameter strings only the later stages of parseQueryParams decode
BracketedInputs ==
    { [text |-> <<"[", "1", ",", " ", "2", ",", "]">>, list |-> <<JNum(1), JNum(2)>>],
      [text |-> <<"[", "T", "e", "s", "t", " ", "S", "t", "r", "i", "n", "g", "]">>, list |-> <<JStr(<<"T", "e", "s", "t", " ", "S", "t", "r", "i", "n", "g">>)>>],
      [text |-> <<"[", "\"", "a", "\"", "b", "\"", "]">>, list |-> <<JStr(<<"a", "\"", "b">>)>>] }

\* JSON texts that hold no array, and absent or blank parameter strings
OtherInputs ==
    { Malformed(<<"5">>), Malformed(<<"0">>), Malformed(<<"n", "u", "l", "l">>),
      Malformed(<<"{", "\"", "a", "\"", ":", "1", "}">>), Malformed(<<"\"", "a", "b", "c", "\"">>),
      Malformed(<<>>), Malformed(<<" ", " ">>), Malformed(Undefined) }

ParamInputs ==
    { Encoded(Numbered(n, 0, JNull)) : n \in {0, 2, MaxParams} }
    \cup { Encoded(<<JArr(Numbered(n, 0, JNull))>>) : n \in 0..MaxItems }
    \cup { Encoded(<<JNum(1), JStr(John)>>), Encoded(<<JStr(<<"$", "&">>), JNull>>),
           DoubleEncoded(<<JNum(1), JNum(2), JNum(3)>>),
           DoubleEncoded(<<JNum(7), JStr(John)>>), DoubleEncoded(<<>>),
           DoubleEncoded(<<JArr(Numbered(MaxItems, 0, JNull)), JBool(TRUE)>>) }
    \cup UndecodableInputs \cup BracketedInputs \cup OtherInputs

Init ==
    /\ shape \in FormatShapes
    /\ query = ShapeText(shape)
    /\ \E input \in ParamInputs : params = input.text /\ paramArray = input.list
    /\ \E colors \in BOOLEAN, custom \in CustomFormatters :
          config = [DefaultConfig EXCEPT !.enableColors = colors,
                                         !.customQueryFormatter = custom]
    /\ pc = "ready"
    /\ result = Return(<<>>)
    /\ again = Return(<<>>)
    /\ calls = <<>>
    /\ frames = <<>>

FormatSqlQuery ==
    /\ pc = "ready"
    /\ result' = formatSqlQuery(query, params, config)
    /\ calls' = calls \o CustomCalls(query, params, config)
    /\ pc' = "done"
    /\ UNCHANGED <<shape, query, params, paramArray, config, again, frames>>

Next == FormatSqlQuery

Spec == Init /\ [][Next]_vars

-----------------------------------------------------------------------------
(* The rendering of one parameter: formatParamValue applied to a value      *)
(* under a configuration.  The value is the one element of paramArray.      *)

\* The longest maxStringLength a generated configuration holds.
MaxStringLength == 4

Letters(n) == [i \in 1..n |-> LowerLetters[i]]

\* the elements of the generated arrays: numbers, strings, or both with a
\* null and a boolean among them
Element(kind, i) ==
    CASE kind = "num" -> JNum(i)
      [] kind = "str" -> JStr(<<"v">> \o NatToStr(i))
      [] kind = "mixed" -> IF i = 2 THEN JNull
                           ELSE IF i = 5 THEN JBool(TRUE)
                           ELSE IF i % 2 = 0 THEN JStr(<<"v">> \o NatToStr(i))
                           ELSE JNum(i)
      [] kind = "nested" -> IF i = 1 THEN JArr(<<JNum(1)>>) ELSE JNum(i)

ParamValues ==
    { JArr([i \in 1..n |-> Element(kind, i)]) :
        kind \in {"num", "str", "mixed", "nested"}, n \in 0..MaxItems }
    \cup { JStr(Letters(n)) : n \in 0..(MaxStringLength + 2) }
    \cup { JNum(42), JNum(0), JNull, JBool(TRUE), JBool(FALSE),
           JObj(<<<<"a">>>>, <<JNum(1)>>) }

InitParam ==
    /\ shape = <<>>
    /\ query = <<>>
    /\ params = Undefined
    /\ \E v \in ParamValues : paramArray = <<v>>
    /\ \E colors \in BOOLEAN, max \in 0..MaxStringLength :
          config = [DefaultConfig EXCEPT !.enableColors = colors,
                                         !.maxStringLength = max]
    /\ pc = "ready"
    /\ result = Return(<<>>)
    /\ again = Return(<<>>)
    /\ calls = <<>>
    /\ frames = <<>>

FormatParamValue ==
    /\ pc = "ready"
    /\ result' = Return(formatParamValue(paramArray[1], config))
    /\ pc' = "formatted"
    /\ UNCHANGED <<shape, query, params, paramArray, config, again, calls, frames>>

NextParam == FormatParamValue

SpecParam == InitParam /\ [][NextParam]_vars

-----------------------------------------------------------------------------
(* Several calls of one formatter.  formatSqlQuery is synchronous, so calls *)
(* run one after the other; the model lets their steps interleave freely,   *)
(* which includes every order the program can produce.  Each call owns its  *)
(* local formattedQuery; the configuration is shared and only read.         *)

MaxCalls == 3

\* the arguments of the calls
CallInputs ==
    { [query |-> ShapeText(<<Section(<<"a", " ">>, <<"I", "N", " ", "(">>,
                                     Items("num", PARAM_THRESHOLD + 1), <<")">>)>>),
       params |-> Encoded(<<>>).text],
      [query |-> <<"x", " ", "=", " ", "$", "1">>,
       params |-> Encoded(<<JNum(1), JStr(John)>>).text] }

\* const formatSqlQuery = (query, params) => { ... }: a call starts with its
\* two arguments and nothing else
Frame(input) ==
    [query |-> input.query, params |-> input.params,
     formattedQuery |-> Undefined, pc |-> "called", result |-> Return(<<>>)]

\* a formattedQuery declared outside formatSqlQuery, which every call would
\* share: a call reads what the call that came first last wrote
FrameLocalShared(fs, i) == fs[1].formattedQuery

\* the formattedQuery a call reads: its own (let formattedQuery, line 39)
FrameLocal(fs, i) == fs[i].formattedQuery

InitCalls ==
    /\ shape = <<>>
    /\ query = <<>>
    /\ params = Undefined
    /\ paramArray = <<>>
    /\ \E colors \in BOOLEAN, custom \in {"none", "prefix"} :
          config = [DefaultConfig EXCEPT !.enableColors = colors,
                                         !.customQueryFormatter = custom]
    /\ pc = "calls"
    /\ result = Return(<<>>)
    /\ again = Return(<<>>)
    /\ calls = <<>>
    /\ frames = <<>>

\* the caller calls formatSqlQuery(query, params)
Call ==
    /\ pc = "calls"
    /\ Len(frames) < MaxCalls
    /\ \E input \in CallInputs : frames' = Append(frames, Frame(input))
    /\ UNCHANGED <<shape, query, params, paramArray, config, pc, result, again, calls>>

\* if (config.customQueryFormatter) return ...; let formattedQuery = query
Enter(i) ==
    /\ frames[i].pc = "called"
    /\ frames' =
          IF config.customQueryFormatter # "none"
          THEN [frames EXCEPT ![i].pc = "returned",
                   ![i].result = customQueryFormatter(config.customQueryFormatter,
                                                      frames[i].query, frames[i].params)]
          ELSE [frames EXCEPT ![i].pc = "substitute",
                              ![i].formattedQuery = frames[i].query]
    /\ UNCHANGED <<shape, query, params, paramArray, config, pc, result, again, calls>>

\* if (params && params.trim() !== '') { try { ... } catch { } }
SubstituteStep(i) ==
    /\ frames[i].pc = "substitute"
    /\ frames' =
          [frames EXCEPT ![i].pc = "highlight",
              ![i].formattedQuery =
                  IF frames[i].params # Undefined /\ Trim(frames[i].params) # <<>>
                  THEN Substitute(frames[i].query, frames[i].params, config)
                  ELSE FrameLocal(frames, i)]
    /\ UNCHANGED <<shape, query, params, paramArray, config, pc, result, again, calls>>

\* if (enableColors) formattedQuery = highlightSqlKeywords(formattedQuery)
HighlightStep(i) ==
    /\ frames[i].pc = "highlight"
    /\ frames' = [frames EXCEPT ![i].pc = "truncate",
                     ![i].formattedQuery = Highlight(FrameLocal(frames, i), config)]
    /\ UNCHANGED <<shape, query, params, paramArray, config, pc, result, again, calls>>

\* return smartTruncateQuery(formattedQuery, enableColors, chalkInstance)
ReturnStep(i) ==
    /\ frames[i].pc = "truncate"
    /\ frames' = [frames EXCEPT ![i].pc = "returned",
                     ![i].result = Return(smartTruncateQuery(FrameLocal(frames, i),
                                                             config.enableColors))]
    /\ UNCHANGED <<shape, query, params, paramArray, config, pc, result, again, calls>>

NextCalls ==
    \/ Call
    \/ \E i \in DOMAIN frames : Enter(i)
    \/ \E i \in DOMAIN frames : SubstituteStep(i)
    \/ \E i \in DOMAIN frames : HighlightStep(i)
    \/ \E i \in DOMAIN frames : ReturnStep(i)

SpecCalls == InitCalls /\ [][NextCalls]_vars

-----------------------------------------------------------------------------
(* parseQueryParams, one decoder at a time.  calls lists the decoders the   *)
(* call has run so far, result holds what the call returned.                *)

MaxTextLength == 3

ParseAlphabet == {"[", "]", "1", ",", "\"", "a", "\\"}

\* what stands between the brackets of a params text with stray quotes
MaxBodyLength == 4
QuoteAlphabet == {"\"", "\\", "a", ","}
QuotedBodies == UNION { [1..n -> QuoteAlphabet] : n \in 1..MaxBodyLength }

\* parameter lists written with a comma after the last item
TrailingCommaLists ==
    { <<JNum(1), JNum(2)>>, <<JNull, JBool(TRUE), JBool(FALSE)>>, <<JStr(John)>>,
      <<JStr(<<"a", ",", "b">>), JNum(7)>>, <<JObj(<<<<"a">>>>, <<JNum(1)>>)>>,
      <<JArr(<<JNum(1), JNum(2)>>)>>, <<JStr(<<"a", "\"", "b">>)>>,
      <<JStr(<<"a", "\\", "b">>)>>, <<JStr(<<"a", "LF", "b">>)>> }

\* a bracketed text with a comma put before its closing bracket
WithTrailingComma(text) == SubSeq(text, 1, Len(text) - 1) \o <<",", "]">>

\* the texts handed to parseQueryParams (formatSqlQuery hands over no blank
\* text): those of the formatter's inputs, every short text over the
\* alphabet, and texts for the manual tokenizer
ParseTexts ==
    { input.text : input \in { i \in ParamInputs : i.text # Undefined /\ Trim(i.text) # <<>> } }
    \cup UNION { [1..n -> ParseAlphabet] : n \in 1..MaxTextLength }
    \cup { WithTrailingComma(Encoded(list).text) : list \in TrailingCommaLists }
    \cup { <<"[">> \o body \o <<"]">> : body \in QuotedBodies }
    \cup { <<"[", "\"", "t", "e", "s", "t", ",", "v", "a", "l", "u", "e", "\"", ",", " ", "o", "t", "h", "e", "r", "]">>,
           <<"[", "h", "e", "l", "l", "o", ",", " ", "\"", "w", "o", "r", "l", "d", "\"", "]">>,
           <<"[", "a", "\\", ",", "b", ",", " ", "\"", "c", "\\", "\"", "d", ",", "e", "\"", ",", "f", ",", " ", "]">>,
           <<"[", "\"", "a", ",", "b", ",", "c", "]">>,
           <<"[", " ", "1", " ", ",", ",", " ", "\\", "\\", "\"", "x", ",", "y", "\"", " ", "]">> }

DirectStage == "JSON.parse(params)"
SanitizedStage == "JSON.parse(sanitized)"
ManualStage == "manualParseArray(params)"

\* the try block of parseQueryParams, parsed being the outcome of the first
\* JSON.parse: the outcome of the second JSON.parse when the first gave a
\* string
TryBlock(parsed) ==
    IF parsed.ok /\ parsed.v.t = "string" THEN JsonParse(parsed.v.s) ELSE parsed

\* a guard that looks at the first character only
IsBracketedPrefix(text) == text # <<>> /\ text[1] = "["

\* params.startsWith('[') && params.endsWith(']')
IsBracketed(text) == text # <<>> /\ text[1] = "[" /\ text[Len(text)] = "]"

InitParse ==
    /\ shape = <<>>
    /\ query = <<>>
    /\ params \in ParseTexts
    /\ paramArray = <<>>
    /\ config = DefaultConfig
    /\ pc = "ready"
    /\ result = NoParams
    /\ again = Return(<<>>)
    /\ calls = <<>>
    /\ frames = <<>>

\* try { const parsed = JSON.parse(params); return ... }
DirectDecode ==
    /\ pc = "ready"
    /\ calls' = Append(calls, DirectStage)
    /\ IF TryBlock(JsonParse(params)).ok
       THEN result' = Parsed(TryBlock(JsonParse(params)).v) /\ pc' = "returned"
       ELSE result' = result /\ pc' = "caught"
    /\ UNCHANGED <<shape, query, params, paramArray, config, again, frames>>

\* catch { if (params.startsWith('[') && params.endsWith(']')) ... return null }
Caught ==
    /\ pc = "caught"
    /\ IF IsBracketed(params)
       THEN result' = result /\ pc' = "sanitize"
       ELSE result' = NoParams /\ pc' = "returned"
    /\ UNCHANGED <<shape, query, params, paramArray, config, again, calls, frames>>

\* const sanitized = ...; try { return JSON.parse(sanitized) }
SanitizedDecode ==
    /\ pc = "sanitize"
    /\ calls' = Append(calls, SanitizedStage)
    /\ IF JsonParse(SanitizeQuotes(params, 1)).ok
       THEN result' = Parsed(JsonParse(SanitizeQuotes(params, 1)).v) /\ pc' = "returned"
       ELSE result' = result /\ pc' = "manual"
    /\ UNCHANGED <<shape, query, params, paramArray, config, again, frames>>

\* catch { return manualParseArray(params) }
ManualParse ==
    /\ pc = "manual"
    /\ calls' = Append(calls, ManualStage)
    /\ result' = manualParseArray(params)
    /\ pc' = "returned"
    /\ UNCHANGED <<shape, query, params, paramArray, config, again, frames>>

NextParse == DirectDecode \/ Caught \/ SanitizedDecode \/ ManualParse

SpecParse == InitParse /\ [][NextParse]_vars

-----------------------------------------------------------------------------
(* EnhancedLogger (logger.ts): the configuration it merges and the          *)
(* formatter it builds from it.  An option the caller leaves out is         *)
(* "absent"; customQueryFormatter: undefined is the option "none".          *)

MaxUpdates == 2

LoggerOptions ==
    [customQueryFormatter : {"absent", "none", "prefix"},
     enableColors : {"absent", "true", "false"}]

\* options that bring no default of their own: an absent customQueryFormatter
\* leaves the logger without one
SpreadWithoutDefault(base, options) ==
    [base EXCEPT
        !.customQueryFormatter = IF options.customQueryFormatter = "absent"
                                 THEN "none" ELSE options.customQueryFormatter,
        !.enableColors = IF options.enableColors = "absent"
                         THEN @ ELSE options.enableColors = "true"]

\* { ...base, ...options }: every key the options hold replaces that of base
Spread(base, options) ==
    [base EXCEPT
        !.customQueryFormatter = IF options.customQueryFormatter = "absent"
                                 THEN @ ELSE options.customQueryFormatter,
        !.enableColors = IF options.enableColors = "absent"
                         THEN @ ELSE options.enableColors = "true"]

InitLogger ==
    /\ shape = <<>>
    /\ query = <<>>
    /\ params = Undefined
    /\ paramArray = <<>>
    /\ config = DefaultConfig
    /\ pc = "new"
    /\ result = Return(<<>>)
    /\ again = Return(<<>>)
    /\ calls = <<>>
    /\ frames = <<>>

\* new EnhancedLogger(options): this.config = { ...DEFAULT_CONFIG, ...config };
\* this.formatSqlQuery = createSqlFormatter(this.config)
Construct ==
    /\ pc = "new"
    /\ \E options \in LoggerOptions :
          /\ config' = Spread(DefaultConfig, options)
          /\ calls' = <<options>>
    /\ pc' = "constructed"
    /\ UNCHANGED <<shape, query, params, paramArray, result, again, frames>>

\* updateConfig(options): this.config = { ...this.config, ...newConfig };
\* this.formatSqlQuery = createSqlFormatter(this.config)
UpdateConfig ==
    /\ pc \in {"constructed", "logged"}
    /\ Len(calls) <= MaxUpdates
    /\ \E options \in LoggerOptions :
          /\ config' = Spread(config, options)
          /\ calls' = Append(calls, options)
    /\ pc' = "constructed"
    /\ UNCHANGED <<shape, query, params, paramArray, result, again, frames>>

\* this.formatSqlQuery(query, params)
LogQuery ==
    /\ pc \in {"constructed", "logged"}
    /\ \E input \in CallInputs :
          /\ query' = input.query
          /\ params' = input.params
          /\ result' = formatSqlQuery(input.query, input.params, config)
    /\ pc' = "logged"
    /\ UNCHANGED <<shape, paramArray, config, again, calls, frames>>

NextLogger == Construct \/ UpdateConfig \/ LogQuery

SpecLogger == InitLogger /\ [][NextLogger]_vars

-----------------------------------------------------------------------------
(* truncateForLog on its own: one call on a value, under a configuration    *)
(* with some maxArrayLength.                                                *)

MaxArrayLength == 5
MaxDepth == 5

\* leaf wrapped d times in an array of one item or an object of one key
RECURSIVE Wrapped(_, _, _)
Wrapped(kind, d, leaf) ==
    IF d = 0 THEN leaf
    ELSE IF kind = "array" \/ (kind = "mixed" /\ d % 2 = 1)
    THEN JArr(<<Wrapped(kind, d - 1, leaf)>>)
    ELSE JObj(<<<<"k">>>>, <<Wrapped(kind, d - 1, leaf)>>)

\* the values handed to truncateForLog: arrays of numbers of every length,
\* and values nested to every depth
LogValues ==
    { JArr(Numbered(n, 0, JNull)) : n \in 0..MaxItems }
    \cup { Wrapped(kind, d, leaf) :
             kind \in {"array", "object", "mixed"}, d \in 0..MaxDepth,
             leaf \in {JNum(7), JStr(John), JNull, JArr(<<JNum(1), JNum(2)>>)} }

InitLog ==
    /\ shape = <<>>
    /\ query = <<>>
    /\ params = Undefined
    /\ \E value \in LogValues : paramArray = <<value>>
    /\ \E max \in 0..MaxArrayLength : config = [DefaultConfig EXCEPT !.maxArrayLength = max]
    /\ pc = "ready"
    /\ result = JNull
    /\ again = Return(<<>>)
    /\ calls = <<>>
    /\ frames = <<>>

\* truncateForLog(value)
TruncateForLog ==
    /\ pc = "ready"
    /\ result' = truncateForLog(config, paramArray[1], 0)
    /\ pc' = "truncated"
    /\ UNCHANGED <<shape, query, params, paramArray, config, again, calls, frames>>

NextLog == TruncateForLog

SpecLog == InitLog /\ [][NextLog]_vars

-----------------------------------------------------------------------------
(* requestLogger (logger.ts): the middleware, the listeners it registers on *)
(* the response, and the 'finish' and 'error' events the response emits.    *)

MaxRequests == 2
MaxEvents == 3

\* a line handed to this.error, this.warn or this.info
LogLine(level, line, statusCode, duration, slow) ==
    [level |-> level, line |-> line, statusCode |-> statusCode,
     duration |-> duration, slow |-> slow]

\* res.on(event, handler): the listener stays registered
On(listeners, event, handler) ==
    [listeners EXCEPT ![event] = Append(@, [handler |-> handler, once |-> FALSE])]

\* res.once(event, handler)
Once(listeners, event, handler) ==
    [listeners EXCEPT ![event] = Append(@, [handler |-> handler, once |-> TRUE])]

\* res.off(event, handler): the most recently added instance of the handler
\* is removed
Off(listeners, event, handler) ==
    LET at == {i \in DOMAIN listeners[event] : listeners[event][i].handler = handler}
    IN  IF at = {} THEN listeners
        ELSE LET last == CHOOSE i \in at : \A j \in at : j <= i
             IN  [listeners EXCEPT ![event] =
                     SubSeq(@, 1, last - 1) \o SubSeq(@, last + 1, Len(@))]

\* a level choice that looks at the duration first
CompletionLevelSlowFirst(statusCode, duration, threshold) ==
    IF duration > threshold THEN "warn"
    ELSE IF statusCode >= 500 THEN "error" ELSE "info"

\* the if / else if / else of finishHandler
CompletionLevel(statusCode, duration, threshold) ==
    IF statusCode >= 500 THEN "error"
    ELSE IF duration > threshold THEN "warn" ELSE "info"

\* finishHandler: res.off('error', errorHandler), then the completion line
finishHandler(frame, statusCode, duration, cfg) ==
    [frame EXCEPT
        !.listeners = Off(@, "error", "errorHandler"),
        !.logged = Append(@, LogLine(
            CompletionLevel(statusCode, duration, cfg.slowRequestThreshold),
            "Completed", statusCode, duration,
            CompletionLevel(statusCode, duration, cfg.slowRequestThreshold) = "warn"))]

\* errorHandler: this.error({ requestId, error, stack, context })
errorHandler(frame) ==
    [frame EXCEPT !.logged = Append(@, LogLine("error", "Error", 0, 0, FALSE))]

\* the handlers of the listeners ls run in turn
RECURSIVE RunListeners(_, _, _, _, _, _)
RunListeners(frame, ls, i, statusCode, duration, cfg) ==
    IF i > Len(ls) THEN frame
    ELSE RunListeners(
             IF ls[i].handler = "finishHandler"
             THEN finishHandler(frame, statusCode, duration, cfg)
             ELSE errorHandler(frame),
             ls, i + 1, statusCode, duration, cfg)

\* res.emit(event): the one-shot listeners of the event are removed and every
\* listener registered at the time of the call runs
Emit(frame, event, statusCode, duration, cfg) ==
    RunListeners(
        [frame EXCEPT !.events = Append(@, event),
                      !.listeners[event] = SelectSeq(@, LAMBDA l : ~l.once)],
        frame.listeners[event], 1, statusCode, duration, cfg)

\* the lines requestLogger writes before it registers its listeners
StartLines(hasController, hasParams) ==
    <<LogLine("info", "Started", 0, 0, FALSE)>>
    \o (IF hasController THEN <<LogLine("info", "Processing", 0, 0, FALSE)>> ELSE <<>>)
    \o (IF hasParams THEN <<LogLine("info", "Parameters", 0, 0, FALSE)>> ELSE <<>>)

\* the events emitted on all responses so far
RECURSIVE Emitted(_, _)
Emitted(fs, i) == IF i > Len(fs) THEN 0 ELSE Len(fs[i].events) + Emitted(fs, i + 1)

InitMiddleware ==
    /\ shape = <<>>
    /\ query = <<>>
    /\ params = Undefined
    /\ paramArray = <<>>
    /\ \E threshold \in {0, 1000} :
          config = [DefaultConfig EXCEPT !.slowRequestThreshold = threshold]
    /\ pc = "serving"
    /\ result = Return(<<>>)
    /\ again = Return(<<>>)
    /\ calls = <<>>
    /\ frames = <<>>

\* requestLogger(req, res, next)
RequestLogger ==
    /\ pc = "serving"
    /\ Len(frames) < MaxRequests
    /\ \E hasController, hasParams \in BOOLEAN :
          frames' = Append(frames,
              [logged |-> StartLines(hasController, hasParams),
               listeners |-> Once(Once([finish |-> <<>>, error |-> <<>>],
                                       "finish", "finishHandler"),
                                  "error", "errorHandler"),
               nextCalls |-> 1,
               events |-> <<>>])
    /\ UNCHANGED <<shape, query, params, paramArray, config, pc, result, again, calls>>

\* the response of invocation i emits 'finish'; res.statusCode and the time
\* since the invocation are what they are at that moment
EmitFinish(i) ==
    /\ Emitted(frames, 1) < MaxEvents
    /\ \E statusCode \in {200, 500},
          duration \in {0, config.slowRequestThreshold, config.slowRequestThreshold + 1} :
          frames' = [frames EXCEPT ![i] = Emit(frames[i], "finish", statusCode, duration, config)]
    /\ UNCHANGED <<shape, query, params, paramArray, config, pc, result, again, calls>>

\* the response of invocation i emits 'error'
EmitError(i) ==
    /\ Emitted(frames, 1) < MaxEvents
    /\ frames' = [frames EXCEPT ![i] = Emit(frames[i], "error", 0, 0, config)]
    /\ UNCHANGED <<shape, query, params, paramArray, config, pc, result, again, calls>>

NextMiddleware ==
    \/ RequestLogger
    \/ \E i \in DOMAIN frames : EmitFinish(i)
    \/ \E i \in DOMAIN frames : EmitError(i)

SpecMiddleware == InitMiddleware /\ [][NextMiddleware]_vars

-----------------------------------------------------------------------------
(* What the claims about the truncator say, stated on the sections a query  *)
(* was put together from.                                                   *)

Truncated == pc \in {"truncated", "twice"}

\* A section holds a clause when its list is closed and its body not empty:
\* the body then splits on commas into as many items as the list has.
IsClause(sec) == sec.kw # <<>> /\ sec.close = <<")">> /\ JoinComma(sec.items) # <<>>
IsLargeClause(sec) == IsClause(sec) /\ Len(sec.items) > 10
IsSmallClause(sec) == IsClause(sec) /\ Len(sec.items) <= 10

\* A clause is an IN clause when its IN is a word of its own: the list after
\* MIN( or JOIN ( is a clause to the pattern of smartTruncateQuery, and no IN
\* clause.
IsKeywordClause(sec) ==
    IsClause(sec) /\ (sec.lead = <<>> \/ ~IsWordChar(sec.lead[Len(sec.lead)]))
IsLargeInClause(sec) == IsLargeClause(sec) /\ IsKeywordClause(sec)
IsSmallInClause(sec) == IsSmallClause(sec) /\ IsKeywordClause(sec)

\* the elision marker for n omitted items, as it is inside a list
Marker(n) ==
    <<",", ".", ".", ".">> \o NatToStr(n)
    \o <<" ", "m", "o", "r", "e", ".", ".", ".", ",">>

\* a large clause as the claims say it is rewritten
Elided(sec) ==
    LET n == Len(sec.items)
        its == MapTrim(sec.items)
    IN  <<"I", "N", " ", "(">>
        \o its[1] \o <<",">> \o its[2] \o <<",">> \o its[3]
        \o Marker(n - 6)
        \o its[n - 2] \o <<",">> \o its[n - 1] \o <<",">> \o its[n]
        \o <<")">>

\* the text of the sections lo..hi as written
TextOf(sh, lo, hi) == Flatten([i \in 1..(hi - lo + 1) |-> SectionText(sh[lo + i - 1])])

UntouchedBefore(sh, k) == \A j \in 1..(k - 1) : ~IsLargeClause(sh[j])
UntouchedAfter(sh, k) == \A j \in (k + 1)..Len(sh) : ~IsLargeClause(sh[j])

\* the output holds text t at the place section k has when nothing before the
\* section changed, counted from the start (lead is the part of the section
\* before t), or when nothing after the section changed, counted from the end
HoldsAt(out, sh, k, lead, t) ==
    /\ UntouchedBefore(sh, k) =>
          LET at == Len(TextOf(sh, 1, k - 1)) + Len(lead)
          IN  SubSeq(out, at + 1, at + Len(t)) = t
    /\ UntouchedAfter(sh, k) =>
          LET rest == Len(TextOf(sh, k + 1, Len(sh)))
          IN  SubSeq(out, Len(out) - rest - Len(t) + 1, Len(out) - rest) = t

HasMarker(out) ==
    \E i \in DOMAIN out : StartsAt(out, <<" ", "m", "o", "r", "e", ".", ".", ".">>, i)

C2_LargeClausesElided ==
    (Truncated /\ ~config.enableColors) =>
        \A k \in DOMAIN shape :
            IsLargeInClause(shape[k]) =>
                HoldsAt(result.text, shape, k, shape[k].lead, Elided(shape[k]))

C2_Witness ==
    /\ Truncated /\ ~config.enableColors
    /\ \E k \in DOMAIN shape : IsLargeInClause(shape[k]) /\ Len(shape[k].items) = MaxItems
    /\ result.text # query

\* C8: every IN clause of a query is judged on its own item count: the
\* output is the query with each IN clause of more than 10 items elided, every
\* other IN clause and all text outside the IN clauses as written.
C8_ClausesIndependent ==
    (Truncated /\ ~config.enableColors) =>
        result.text =
            Flatten([k \in DOMAIN shape |->
                        IF IsLargeInClause(shape[k])
                        THEN shape[k].lead \o Elided(shape[k])
                        ELSE SectionText(shape[k])])

\* C9: the truncator is idempotent (colors disabled): truncating what it
\* returned returns the same text.
C9_Idempotent ==
    (pc = "twice" /\ ~config.enableColors) => again.text = result.text

C9_Witness ==
    pc = "twice" /\ ~config.enableColors /\ result.text # query /\ HasMarker(again.text)

\* C10: a query without an IN clause - IN as a word of its own followed by a
\* parenthesized list; a list after MIN or JOIN is none - comes back with no
\* elision marker and no text removed.
C10_NoClauseNoElision ==
    (Truncated /\ \A k \in DOMAIN shape : ~IsKeywordClause(shape[k])) =>
        (result.text = query /\ ~HasMarker(result.text))

-----------------------------------------------------------------------------
(* What the claims about the substitution say, stated on the pieces a query *)
(* was put together from.                                                   *)

\* the rendering of a parameter: a number or boolean as its literal text, null
\* as null, a string no longer than maxStringLength in single quotes (colors
\* add the emphasis around it); any other value as formatParamValue has it
Rendering(v, cfg) ==
    LET plain == CASE v.t = "number" -> IntToStr(v.n)
                   [] v.t = "boolean" -> (IF v.b THEN <<"t", "r", "u", "e">>
                                          ELSE <<"f", "a", "l", "s", "e">>)
                   [] v.t = "null" -> <<"n", "u", "l", "l">>
                   [] v.t = "string" /\ Len(v.s) <= cfg.maxStringLength ->
                          <<"'">> \o v.s \o <<"'">>
                   [] OTHER -> <<>>
    IN  IF v.t \in {"number", "boolean", "null"}
           \/ (v.t = "string" /\ Len(v.s) <= cfg.maxStringLength)
        THEN (IF cfg.enableColors
              THEN Sgr(<<"1">>) \o plain \o Sgr(<<"2", "2">>) ELSE plain)
        ELSE formatParamValue(v, cfg)

\* the query with every placeholder of an index up to the number of
\* parameters replaced, all at once, by the rendering of its parameter
Substituted(ps, arr, cfg) ==
    Flatten([i \in DOMAIN ps |->
                IF ps[i].style = "text" \/ ps[i].index > Len(arr) THEN ps[i].text
                ELSE Rendering(arr[ps[i].index], cfg)])

\* C3: every occurrence of @Pi and of $i, i up to the number of parameters,
\* is replaced by the rendering of the i-th parameter.
C3_PositionalSubstitution ==
    pc = "replaced" => result.text = Substituted(shape, paramArray, config)

\* the query with the placeholders of index 10 replaced by the rendering of
\* the 1st parameter followed by the character 0
MisSubstituted(ps, arr, cfg) ==
    Flatten([i \in DOMAIN ps |->
                IF ps[i].style = "text" \/ ps[i].index > Len(arr) THEN ps[i].text
                ELSE IF ps[i].index = 10 THEN Rendering(arr[1], cfg) \o <<"0">>
                ELSE Rendering(arr[ps[i].index], cfg)])

\* a value whose rendering holds no "$" and no "@"
IsPlainValue(v) == v.t \in {"number", "boolean", "null"}
                   \/ (v.t = "string" /\ "$" \notin Range(v.s) /\ "@" \notin Range(v.s))

HasIndex(ps, index) == \E i \in DOMAIN ps : ps[i].style # "text" /\ ps[i].index = index

\* C6: with 10 or more parameters, the turn for the 1st parameter leaves
\* every @P10 and $10 of the query in place, and the output reads the
\* rendering of the 10th parameter where the query reads @P10 or $10, never
\* the rendering of the 1st parameter followed by 0. (Stated for lists whose
\* other parameters render without "$" and "@", so that only the placeholders
\* of index 10 are in question.)
C6_WordBoundarySafe ==
    (/\ pc = "replaced" /\ Len(paramArray) >= 10 /\ HasIndex(shape, 10)
     /\ \A i \in DOMAIN paramArray : i # 10 => IsPlainValue(paramArray[i])) =>
        LET afterFirst == ReplaceFirstParams(query, paramArray, 1, config)
            Tens(text) == {i \in DOMAIN text :
                              \/ PlaceholderAt(text, <<"@", "P", "1", "0">>, i)
                              \/ PlaceholderAt(text, <<"$", "1", "0">>, i)}
        IN  /\ Cardinality(Tens(afterFirst)) >= Cardinality(Tens(query))
            /\ MisSubstituted(shape, paramArray, config)
                   # Substituted(shape, paramArray, config)
               => result.text # MisSubstituted(shape, paramArray, config)
            /\ result.text = Substituted(shape, paramArray, config)

-----------------------------------------------------------------------------
(* What the claims about the whole formatter say.                           *)

Done == pc = "done"

IsUndecodable == \E input \in UndecodableInputs : params = input.text

HasPlaceholder(text) ==
    \E i \in DOMAIN text : StartsAt(text, <<"@", "P">>, i) \/ text[i] = "$"

C5_CustomFormatterBypass ==
    (Done /\ config.customQueryFormatter # "none") =>
        /\ calls = <<[query |-> query, params |-> params]>>
        /\ config.customQueryFormatter = "default" => result = Return(query)
        /\ config.customQueryFormatter = "prefix" =>
              result = Return(<<"C", "U", "S", "T", "O", "M", ":", " ">> \o query)

C5_Witness ==
    /\ Done /\ config.customQueryFormatter = "prefix"
    /\ IsLargeClause(shape[1]) /\ shape[1].kw = <<"I", "N", " ", "(">>
    /\ HasPlaceholder(query)
    /\ paramArray # <<>>
    /\ Len(calls) = 1
    /\ result.text = <<"C", "U", "S", "T", "O", "M", ":", " ">> \o query

\* the numbers lo..hi, joined by commas
NumberList(lo, hi) == JoinComma([i \in 1..(hi - lo + 1) |-> NatToStr(lo + i - 1)])

\* C7: with colors disabled, when the single placeholder of an IN clause is
\* given an array of n > 10 numbers 1..n, the clause of the output keeps the
\* first a >= 3 and the last b >= 3 of them around one marker, and the marker
\* counts the n - a - b elements left out.
C7_MarkerCountsOmitted ==
    (/\ Done /\ config.customQueryFormatter = "none" /\ ~config.enableColors
     /\ shape[1].kw = <<"I", "N", " ", "(">> /\ shape[1].items = <<<<"@", "P", "1">>>>
     /\ Len(paramArray) = 1 /\ paramArray[1].t = "array"
     /\ Len(paramArray[1].a) > 10) =>
        LET n == Len(paramArray[1].a)
        IN  \E a \in 3..n, b \in 3..n :
               /\ a + b < n
               /\ result.text = shape[1].lead \o <<"I", "N", " ", "(">>
                                \o NumberList(1, a) \o Marker(n - a - b)
                                \o NumberList(n - b + 1, n) \o <<")">>

\* index i of text lies inside an escape sequence ESC [ ... m
InEscape(text, i) ==
    \E j \in 1..i :
        /\ i - j <= 4
        /\ text[j] = "ESC"
        /\ \A k \in j..(i - 1) : text[k] # "m"

\* text[lo..hi] without its color and emphasis escape sequences
RECURSIVE StripBetween(_, _, _)
StripBetween(text, lo, hi) ==
    IF lo > hi THEN <<>>
    ELSE IF lo = hi THEN (IF InEscape(text, lo) THEN <<>> ELSE <<text[lo]>>)
    ELSE StripBetween(text, lo, (lo + hi) \div 2)
         \o StripBetween(text, (lo + hi) \div 2 + 1, hi)

StripEscapes(text) == StripBetween(text, 1, Len(text))

\* C11: enabling colors changes markup only: the output produced with colors
\* enabled, its escape sequences removed, is the output produced with colors
\* disabled; an IN clause of more than 10 items is truncated under both.
C11_ColorsChangeMarkupOnly ==
    (Done /\ config.customQueryFormatter = "none" /\ config.enableColors) =>
        StripEscapes(result.text)
            = formatSqlQuery(query, params, [config EXCEPT !.enableColors = FALSE]).text

-----------------------------------------------------------------------------
(* What the claims about the rendering of one parameter say.                *)

Formatted == pc = "formatted"

IsPrimitiveArray(v) ==
    v.t = "array" /\ \A i \in DOMAIN v.a : v.a[i].t \in {"number", "string", "boolean", "null"}

\* an element of a primitive array as the joined text shows it: a string by
\* its characters, null by nothing
ElementText(v) ==
    CASE v.t = "number" -> NatToStr(v.n)
      [] v.t = "string" -> v.s
      [] v.t = "boolean" -> (IF v.b THEN <<"t", "r", "u", "e">>
                             ELSE <<"f", "a", "l", "s", "e">>)
      [] OTHER -> <<>>

\* the elements lo..hi of array a, joined by commas
ElementsText(a, lo, hi) ==
    JoinComma([i \in 1..(hi - lo + 1) |-> ElementText(a[lo + i - 1])])

\* an array of n elements with the first and the last keep of them around the
\* marker for the n - 2 * keep elements between
ElidedArray(a, keep) ==
    ElementsText(a, 1, keep) \o Marker(Len(a) - 2 * keep)
    \o ElementsText(a, Len(a) - keep + 1, Len(a))

\* an array of more than 10 primitives is rendered as its first 3 elements,
\* the marker for n - 6 elements and its last 3 elements
C12_ArrayRenderedFirst3Last3 ==
    (Formatted /\ IsPrimitiveArray(paramArray[1]) /\ Len(paramArray[1].a) > 10) =>
        StripEscapes(result.text) = ElidedArray(paramArray[1].a, 3)

\* C12: an array of n > 10 primitives is rendered (markup aside) as its first
\* 5 elements, the marker ,...<n - 10> more..., and its last 5 elements,
\* joined by commas without brackets.
C12_ArrayRenderedFirst5Last5 ==
    (Formatted /\ IsPrimitiveArray(paramArray[1]) /\ Len(paramArray[1].a) > 10) =>
        StripEscapes(result.text) = ElidedArray(paramArray[1].a, 5)

C12_Witness ==
    /\ Formatted /\ IsPrimitiveArray(paramArray[1]) /\ Len(paramArray[1].a) = MaxItems
    /\ \E i \in DOMAIN paramArray[1].a : paramArray[1].a[i].t = "string"
    /\ ~config.enableColors
    /\ result.text = ElidedArray(paramArray[1].a, 5)

-----------------------------------------------------------------------------
(* What the claims about the whole formatter say, continued.                *)

IsBlank == params = Undefined \/ Trim(params) = <<>>

NoCustom == config.customQueryFormatter = "none"

\* C13: when params is empty, whitespace-only or undefined, the result
\* (markup aside) is the truncator applied to the original query: every
\* placeholder stays verbatim, and an IN clause of more than 10 placeholders
\* is still truncated.
C13_BlankParamsOnlyTruncate ==
    (Done /\ NoCustom /\ IsBlank) =>
        /\ StripEscapes(result.text) = smartTruncateQuery(query, FALSE)
        /\ ~IsLargeInClause(shape[1]) => StripEscapes(result.text) = query
        /\ IsLargeInClause(shape[1]) =>
              StripEscapes(result.text) = shape[1].lead \o Elided(shape[1])

IsDoubleEncoded == params = DoubleEncoded(paramArray).text

\* C14: formatting with the JSON string encoding of the JSON text of an array
\* gives the output of formatting with the JSON text itself; "[1,2,3]"
\* substitutes 1 for $1.
C14_DoubleEncodedEquivalent ==
    (Done /\ NoCustom /\ IsDoubleEncoded) =>
        /\ result = formatSqlQuery(query, Encoded(paramArray).text, config)
        /\ (paramArray = <<JNum(1), JNum(2), JNum(3)>> /\ ~config.enableColors
            /\ query = <<"x", " ", "=", " ", "$", "1">>) =>
              result.text = <<"x", " ", "=", " ", "1">>

C14_Witness ==
    /\ Done /\ NoCustom /\ IsDoubleEncoded
    /\ \E i \in DOMAIN paramArray : paramArray[i].t = "string"
    /\ HasPlaceholder(query)
    /\ StripEscapes(result.text) # query
    /\ result = formatSqlQuery(query, Encoded(paramArray).text, config)

-----------------------------------------------------------------------------
(* What the claims about the rendering of one parameter say, continued.     *)

\* C15: a string of length L is rendered (markup aside) as a quote, its first
\* maxStringLength characters, ... and a quote when L > maxStringLength, as
\* the whole string in quotes when L <= maxStringLength; the rendering is never
\* longer than maxStringLength + 5 characters, also for maxStringLength = 0.
C15_StringTruncatedAtMax ==
    (Formatted /\ paramArray[1].t = "string") =>
        LET s == paramArray[1].s
            max == config.maxStringLength
            rendering == StripEscapes(result.text)
        IN  /\ Len(s) > max =>
                  rendering = <<"'">> \o SubSeq(s, 1, max) \o <<".", ".", ".", "'">>
            /\ Len(s) <= max => rendering = <<"'">> \o s \o <<"'">>
            /\ Len(rendering) <= max + 5

C15_Witness ==
    /\ Formatted /\ paramArray[1].t = "string"
    /\ Len(paramArray[1].s) = config.maxStringLength
    /\ config.maxStringLength > 0
    /\ result.text = <<"'">> \o paramArray[1].s \o <<"'">>


\* C16: when the configured customQueryFormatter throws, formatSqlQuery ends by
\* throwing: the one call of the custom formatter is all it did, and it
\* returns no text.
C16_CustomFormatterThrowPropagates ==
    (Done /\ config.customQueryFormatter = "throws") =>
        /\ result = Throw
        /\ result.kind # "return"
        /\ calls = <<[query |-> query, params |-> params]>>

C16_Witness ==
    /\ Done /\ config.customQueryFormatter = "throws"
    /\ result.kind = "throw"
    /\ Len(calls) = 1
    /\ HasPlaceholder(query) /\ paramArray # <<>>


\* the calls that have returned
Returned == {i \in DOMAIN frames : frames[i].pc = "returned"}

\* C17: whatever calls ran before a call or had their steps interleaved with
\* it, a call returns what formatSqlQuery computes from its own two arguments
\* and the configuration, so two calls with the same arguments return the same
\* string.
C17_NoCrossCallState ==
    /\ \A i \in Returned :
          frames[i].result = formatSqlQuery(frames[i].query, frames[i].params, config)
    /\ \A i, j \in Returned :
          (frames[i].query = frames[j].query /\ frames[i].params = frames[j].params)
              => frames[i].result = frames[j].result

C17_Witness ==
    /\ Len(frames) = 3 /\ Returned = {1, 2, 3}
    /\ config.customQueryFormatter = "none"
    /\ frames[1].query = frames[3].query /\ frames[1].params = frames[3].params
    /\ frames[2].query # frames[1].query
    /\ frames[1].result = frames[3].result
    /\ frames[1].result.text # frames[1].query
    /\ frames[2].result.text # frames[2].query


-----------------------------------------------------------------------------
(* What the claims about the substitution say, continued.                   *)

\* a rendering that String.prototype.replace inserts as it stands: no "$"
\* followed by "$", "&", "GRAVE" or "'"
IsLiteralReplacement(text) ==
    \A i \in 1..(Len(text) - 1) :
        text[i] = "$" => text[i + 1] \notin {"$", "&", "GRAVE", "'"}

\* C18: the output of replaceParamsInQuery is the query with all placeholders
\* replaced at once, so the text put in for one parameter is not rewritten by
\* the turn of another, also when a string parameter reads @Pk or $k for a
\* later index k. (Stated for renderings that hold no replacement pattern of
\* String.prototype.replace, so that only the rewriting is in question.)
C18_SimultaneousSubstitution ==
    (/\ pc = "replaced"
     /\ \A i \in DOMAIN paramArray :
           IsLiteralReplacement(Rendering(paramArray[i], config))) =>
        result.text = Substituted(shape, paramArray, config)


-----------------------------------------------------------------------------
(* What the claims about the parser say.                                    *)

\* direct decoding of a text succeeds: JSON.parse accepts it, and accepts the
\* string it holds when it holds a string
DirectSucceeds(text) ==
    /\ JsonParse(text).ok
    /\ JsonParse(text).v.t = "string" => JsonParse(JsonParse(text).v.s).ok

SanitizedSucceeds(text) == JsonParse(SanitizeQuotes(text, 1)).ok

\* C19: the decoders run in the order direct, sanitized, manual, each only
\* after the one before it has failed, and none after a success; a text that
\* fails direct decoding and does not both start with [ and end with ] yields
\* "no parameters" with only the direct decoder run.
C19_StagesInOrder ==
    /\ calls \in {<<>>, <<DirectStage>>, <<DirectStage, SanitizedStage>>,
                  <<DirectStage, SanitizedStage, ManualStage>>}
    /\ Len(calls) >= 2 => ~DirectSucceeds(params)
    /\ Len(calls) >= 3 => ~SanitizedSucceeds(params)
    /\ pc = "returned" =>
          /\ DirectSucceeds(params) => calls = <<DirectStage>>
          /\ (~DirectSucceeds(params) /\ SanitizedSucceeds(params)
              /\ params[1] = "[" /\ params[Len(params)] = "]") =>
                 calls = <<DirectStage, SanitizedStage>>
          /\ (~DirectSucceeds(params)
              /\ ~(params[1] = "[" /\ params[Len(params)] = "]")) =>
                 calls = <<DirectStage>> /\ result = NoParams
          /\ result = parseQueryParams(params)

C19_Witness ==
    /\ pc = "returned"
    /\ calls = <<DirectStage, SanitizedStage, ManualStage>>
    /\ params = <<"[", "1", ",", " ", "2", ",", "]">>
    /\ result = Parsed(JArr(<<JNum(1), JNum(2)>>))


\* the character at i is the one right after a backslash escape: the
\* backslashes that end just before it are odd in number
IsEscaped(content, i) ==
    LET start == NextIndex({j \in 1..i : \A k \in j..(i - 1) : content[k] = "\\"}, 1)
    IN  (i - start) % 2 = 1

\* the double quotes that toggle the quote state
TogglingQuotes(content) ==
    {i \in DOMAIN content : content[i] = "\"" /\ ~IsEscaped(content, i)}

\* the commas outside double quotes
SplittingCommas(content) ==
    {i \in DOMAIN content :
        /\ content[i] = "," /\ ~IsEscaped(content, i)
        /\ Cardinality({j \in TogglingQuotes(content) : j < i}) % 2 = 0}

\* the text between one splitting comma (or the start) and the next (or the
\* end), from index i on
RECURSIVE TokensFrom(_, _)
TokensFrom(content, i) ==
    LET k == NextIndex({j \in SplittingCommas(content) : j >= i}, i)
    IN  IF k = 0 THEN <<SubSeq(content, i, Len(content))>>
        ELSE <<SubSeq(content, i, k - 1)>> \o TokensFrom(content, k + 1)

\* the tokens of a bracketed text: trimmed, the last one left out when blank
Tokens(text) ==
    LET content == Trim(SubSeq(text, 2, Len(text) - 1))
        all == TokensFrom(content, 1)
    IN  IF content = <<>> THEN <<>>
        ELSE IF Trim(all[Len(all)]) = <<>> THEN MapTrim(SubSeq(all, 1, Len(all) - 1))
        ELSE MapTrim(all)

\* C20: the manual tokenizer splits its text at the commas outside double
\* quotes and nowhere else, a double quote toggling the quote state unless it
\* comes right after a backslash escape; a token keeps every character
\* between its commas (the white space at its ends aside, which is trimmed),
\* so that ["test,value", other] yields the two parameters test,value and
\* other.
C20_CommasOutsideQuotesSplit ==
    (pc = "returned" /\ ManualStage \in Range(calls)) =>
        /\ result = Parsed(JArr([i \in DOMAIN Tokens(params) |->
                                    ManualValue(Tokens(params)[i])]))
        /\ params = <<"[", "\"", "t", "e", "s", "t", ",", "v", "a", "l", "u", "e", "\"", ",", " ", "o", "t", "h", "e", "r", "]">>
              => result = Parsed(JArr(<<JStr(<<"t", "e", "s", "t", ",", "v", "a", "l", "u", "e">>),
                                        JStr(<<"o", "t", "h", "e", "r">>)>>))

C20_Witness ==
    /\ pc = "returned" /\ ManualStage \in Range(calls)
    /\ params = <<"[", "\"", "t", "e", "s", "t", ",", "v", "a", "l", "u", "e", "\"", ",", " ", "o", "t", "h", "e", "r", "]">>
    /\ Len(result.v.a) = 2


\* C21: a comma after the last item adds no parameter: the text of a
\* parameter list with a comma put before its closing bracket is decoded to
\* the parameters the text without that comma is decoded to.
C21_TrailingCommaIgnored ==
    (pc = "returned"
     /\ \E list \in TrailingCommaLists : params = WithTrailingComma(Encoded(list).text)) =>
        \A list \in TrailingCommaLists :
            params = WithTrailingComma(Encoded(list).text) =>
                /\ parseQueryParams(Encoded(list).text) = Parsed(JArr(list))
                /\ result = parseQueryParams(Encoded(list).text)


\* a piece the substitution has to leave as written: plain text, or a
\* placeholder of an index above the number of parameters
IsKept(piece, arr) == piece.style = "text" \/ piece.index > Len(arr)

\* whether out, from index j on, reads the pieces from the i-th on with every
\* kept piece as written and any text at all in place of each other piece
RECURSIVE KeepsPieces(_, _, _, _, _)
KeepsPieces(ps, arr, i, out, j) ==
    IF i > Len(ps) THEN j = Len(out) + 1
    ELSE IF IsKept(ps[i], arr)
    THEN /\ StartsAt(out, ps[i].text, j)
         /\ KeepsPieces(ps, arr, i + 1, out, j + Len(ps[i].text))
    ELSE \E k \in j..(Len(out) + 1) : KeepsPieces(ps, arr, i + 1, out, k)

\* C22: substitution changes nothing but the placeholders @Pi and $i with i
\* up to the number of parameters: the output reads all other text of the
\* query, placeholders of a higher index included, character for character,
\* and with no parameters it is the query.
C22_OnlyPlaceholdersChange ==
    pc = "replaced" =>
        /\ KeepsPieces(shape, paramArray, 1, result.text, 1)
        /\ paramArray = <<>> => result.text = query


\* C23: a string parameter no longer than maxStringLength stands in the
\* output as its own characters between two single quotes, whatever they
\* are. (Stated for lists of one string parameter, which no other turn of the
\* substitution can rewrite.)
C23_StringQuotedVerbatim ==
    (/\ pc = "replaced" /\ Len(paramArray) = 1
     /\ paramArray[1].t = "string"
     /\ Len(paramArray[1].s) <= config.maxStringLength) =>
        LET quoted == <<"'">> \o paramArray[1].s \o <<"'">>
            shown == IF config.enableColors
                     THEN Sgr(<<"1">>) \o quoted \o Sgr(<<"2", "2">>) ELSE quoted
        IN  result.text =
                Flatten([i \in DOMAIN shape |->
                            IF shape[i].style # "text" /\ shape[i].index = 1
                            THEN shown ELSE shape[i].text])


-----------------------------------------------------------------------------
(* What the claims about the logger say.                                    *)

-----------------------------------------------------------------------------
(* What the claims about truncateForLog say.                                *)

\* the argument of the call, when it is an array of numbers
IsNumberArray(v) == v.t = "array" /\ \A i \in DOMAIN v.a : v.a[i].t = "number"

\* C25: an array longer than maxArrayLength comes back as its first
\* floor(maxArrayLength/2) items, the marker [...<L - maxArrayLength> more
\* items...] and its last floor(maxArrayLength/2) items, at most
\* maxArrayLength + 1 entries; a shorter array comes back whole; for every
\* maxArrayLength from 0 on.
C25_ArrayFirstMarkerLast ==
    (pc = "truncated" /\ IsNumberArray(paramArray[1])) =>
        LET a == paramArray[1].a
            max == config.maxArrayLength
            half == max \div 2
        IN  /\ Len(a) <= max => result = JArr(a)
            /\ Len(a) > max =>
                  /\ result = JArr(SubSeq(a, 1, half)
                                   \o <<MoreItemsMarker(Len(a) - max)>>
                                   \o SubSeq(a, Len(a) - half + 1, Len(a)))
                  /\ Len(result.a) <= max + 1

\* the items of the argument that are no entry of the result
AbsentItems(a, r) == {i \in DOMAIN a : \A j \in DOMAIN r : r[j] # a[i]}

\* C26: for an array longer than maxArrayLength, the number in the marker
\* [...N more items...] is the number of items of the array that the result
\* leaves out, for every maxArrayLength from 0 on.
C26_MarkerCountsAbsentItems ==
    (pc = "truncated" /\ IsNumberArray(paramArray[1])
     /\ Len(paramArray[1].a) > config.maxArrayLength) =>
        \E i \in DOMAIN result.a :
            result.a[i] = MoreItemsMarker(Cardinality(AbsentItems(paramArray[1].a, result.a)))


\* whether no array, string or object inside v is over the limits of cfg
RECURSIVE FitsLimits(_, _)
FitsLimits(v, cfg) ==
    CASE v.t = "array" -> /\ Len(v.a) <= cfg.maxArrayLength
                          /\ \A i \in DOMAIN v.a : FitsLimits(v.a[i], cfg)
      [] v.t = "object" -> /\ Len(v.k) <= cfg.maxObjectKeys
                           /\ \A i \in DOMAIN v.a : FitsLimits(v.a[i], cfg)
      [] v.t = "string" -> Len(v.s) <= cfg.maxStringLength
      [] OTHER -> TRUE

\* v, found at nesting depth d, with every value at depth 4 or more replaced
\* by the string [Nested Object]
RECURSIVE CutAtDepth(_, _)
CutAtDepth(v, d) ==
    IF d >= 4 THEN NestedObjectMarker
    ELSE IF v.t = "array" THEN JArr([i \in DOMAIN v.a |-> CutAtDepth(v.a[i], d + 1)])
    ELSE IF v.t = "object" THEN JObj(v.k, [i \in DOMAIN v.a |-> CutAtDepth(v.a[i], d + 1)])
    ELSE v

\* C27: truncateForLog keeps the values up to 3 levels below the value it is
\* given and puts the string [Nested Object] in place of every value at depth
\* 4 or more, whatever its type. (Stated for values within the length limits,
\* which nothing else shortens.)
C27_DepthLimitedToThree ==
    (pc = "truncated" /\ FitsLimits(paramArray[1], config)) =>
        result = CutAtDepth(paramArray[1], 0)

C27_Witness ==
    /\ pc = "truncated" /\ FitsLimits(paramArray[1], config)
    /\ paramArray[1] = Wrapped("mixed", 5, JNum(7))
    /\ result = JArr(<<JObj(<<<<"k">>>>, <<JArr(<<JObj(<<<<"k">>>>,
                                                        <<NestedObjectMarker>>)>>)>>)>>)


-----------------------------------------------------------------------------
(* What the claims about the request middleware say.                        *)

\* the lines of a kind among those an invocation logged
LinesOf(frame, line) == SelectSeq(frame.logged, LAMBDA l : l.line = line)

\* the first place of an event among those emitted on a response (0: none)
FirstEvent(frame, event) ==
    NextIndex({i \in DOMAIN frame.events : frame.events[i] = event}, 1)

C29_OneShotListeners ==
    \A i \in DOMAIN frames :
        LET frame == frames[i]
            finish == FirstEvent(frame, "finish")
            error == FirstEvent(frame, "error")
        IN  /\ frame.nextCalls = 1
            /\ frame.events = <<>> =>
                  /\ frame.listeners.finish = <<[handler |-> "finishHandler", once |-> TRUE]>>
                  /\ frame.listeners.error = <<[handler |-> "errorHandler", once |-> TRUE]>>
            /\ finish # 0 => frame.listeners.finish = <<>> /\ frame.listeners.error = <<>>
            /\ error # 0 => frame.listeners.error = <<>>
            /\ Len(LinesOf(frame, "Error"))
                  = IF error # 0 /\ (finish = 0 \/ error < finish) THEN 1 ELSE 0
            /\ Len(LinesOf(frame, "Completed")) <= 1

C29_Witness ==
    \E i \in DOMAIN frames :
        /\ frames[i].events = <<"finish", "error", "finish">>
        /\ Len(LinesOf(frames[i], "Completed")) = 1
        /\ LinesOf(frames[i], "Error") = <<>>
        /\ frames[i].nextCalls = 1


-----------------------------------------------------------------------------
(* What the claim about the sanitized decode says.                          *)

\* C30: a params text that starts with [, ends with ] and fails the direct
\* decode fails the decode of its quote-sanitized form as well, so that
\* parseQueryParams returns for it what manualParseArray returns.
C30_SanitizedNeverDecides ==
    /\ (IsBracketed(params) /\ ~DirectSucceeds(params)) => ~SanitizedSucceeds(params)
    /\ (pc = "returned" /\ IsBracketed(params) /\ ~DirectSucceeds(params)) =>
          /\ calls = <<DirectStage, SanitizedStage, ManualStage>>
          /\ result = manualParseArray(params)
          /\ parseQueryParams(params) = manualParseArray(params)

C30_Witness ==
    /\ pc = "returned"
    /\ params = <<"[", "a", "\"", "\"", ",", "]">>
    /\ SanitizeQuotes(params, 1) = <<"[", "a", "\\", "\"", "\"", ",", "]">>
    /\ calls = <<DirectStage, SanitizedStage, ManualStage>>
    /\ result = manualParseArray(params)

=============================================================================
